---- MODULE Spec2Model ----
(***************************************************************************)
(* Model of the JAR indexer's storage layout and source-materialization    *)
(* pipeline: coordinate validation, path derivation, register_source,      *)
(* index_artifact, the git handler and the status derivation.              *)
(*                                                                         *)
(* Strings are sequences of one-character tokens.  Two run tokens, "R99"   *)
(* and "R29", stand for 99 and 29 consecutive letters 'a', so that the     *)
(* length limits of the validator (100 and 250) are reached with short     *)
(* sequences; apart from their length they behave like the letter 'a'.     *)
(***************************************************************************)
EXTENDS Integers, Sequences, FiniteSets, TLC

VARIABLES
  coord,     \* SpecCoord: the (group_id, artifact_id, version) triple under validation
  other,     \* SpecCoord: a second triple, already validated
  verdict,   \* SpecCoord: "none" | "accepted" | "rejected" for coord
  cpaths,    \* SpecCoord: the paths built from coord and other once accepted
  home,      \* the storage root StorageManager() resolves (~/.jar-indexer)
  alt,       \* the storage root named by JAR_INDEXER_HOME when it is set
  envHome,   \* "default" when JAR_INDEXER_HOME is unset, "alt" when it names another root
  res,       \* the record returned by the last tool call, with the call's arguments
  origin,    \* SpecBranch: the repository handed to _get_default_branch
  procs,     \* SpecRace: the two concurrent calls, each with its position and locals
  source_uri \* SpecUri: the string handed to SourceProcessor.parse_uri, character by character

vars == <<coord, other, verdict, cpaths, home, alt, envHome, res, origin, procs, source_uri>>

----------------------------------------------------------------------------
(* Strings                                                                 *)

MaxLen == 3

max_component_length == 100
max_total_length == 250

\* characters of the model alphabet that [a-zA-Z0-9._-] admits
SafeChars == {"a", "b", "g", "1", "2", ".", "_", "-", "R99", "R29"}

\* str.strip() removes these
Whitespace == {" "}

TokenLen(t) == IF t = "R99" THEN 99 ELSE IF t = "R29" THEN 29 ELSE 1

RECURSIVE StrLen(_)
StrLen(s) == IF s = <<>> THEN 0 ELSE TokenLen(Head(s)) + StrLen(Tail(s))

RECURSIVE LStrip(_)
LStrip(s) == IF s # <<>> /\ Head(s) \in Whitespace THEN LStrip(Tail(s)) ELSE s

RECURSIVE RStrip(_)
RStrip(s) ==
  IF s # <<>> /\ s[Len(s)] \in Whitespace THEN RStrip(SubSeq(s, 1, Len(s) - 1)) ELSE s

Strip(s) == RStrip(LStrip(s))

\* s.startswith(p)
StartsWith(s, p) == Len(p) <= Len(s) /\ SubSeq(s, 1, Len(p)) = p

\* pattern in coord
Contains(s, pat) ==
  \E i \in 1..Len(s) : i + Len(pat) - 1 <= Len(s) /\ SubSeq(s, i, i + Len(pat) - 1) = pat

dangerous_patterns ==
  { <<".", ".", "/">>, <<".", "/">>, <<"~">>, <<".", ".">>, <<"/", "/">> }

invalid_chars == {"/", "\\", ":", "*", "?", "\"", "<", ">", "|"}

\* re.match(r"^[a-zA-Z0-9._-]+$", coord)
MatchesSafePattern(s) == s # <<>> /\ \A i \in 1..Len(s) : s[i] \in SafeChars

\* validate_maven_coordinates: TRUE when it returns True, FALSE when it raises ValueError.
\* The checks run on the stripped copies, as in the source.
ValidateMavenCoordinates(group_id, artifact_id, version) ==
  LET g == Strip(group_id)
      a == Strip(artifact_id)
      v == Strip(version)
      cs == {g, a, v}
  IN /\ group_id # <<>> /\ artifact_id # <<>> /\ version # <<>>
     /\ g # <<>> /\ a # <<>> /\ v # <<>>
     /\ \A c \in cs : \A p \in dangerous_patterns : ~Contains(c, p)
     /\ \A c \in cs : \A i \in 1..Len(c) : c[i] \notin invalid_chars
     /\ \A c \in cs : StrLen(c) <= max_component_length
     /\ StrLen(g) + StrLen(a) + StrLen(v) + 20 <= max_total_length
     /\ \A c \in cs : MatchesSafePattern(c)

----------------------------------------------------------------------------
(* Paths (StorageManager)                                                  *)

\* group_id.replace('.', '/')
ReplaceDots(s) == [i \in 1..Len(s) |-> IF s[i] = "." THEN "/" ELSE s[i]]

\* create_maven_path: the f-string "{group_path}/{artifact_id}[/{version}]";
\* version = <<>> stands for None
create_maven_path(group_id, artifact_id, version) ==
  IF version # <<>>
  THEN ReplaceDots(group_id) \o <<"/">> \o artifact_id \o <<"/">> \o version
  ELSE ReplaceDots(group_id) \o <<"/">> \o artifact_id

\* the '/'-separated parts of a string, empty parts included
RECURSIVE SplitSlash(_, _)
SplitSlash(s, cur) ==
  IF s = <<>> THEN <<cur>>
  ELSE IF Head(s) = "/" THEN <<cur>> \o SplitSlash(Tail(s), <<>>)
  ELSE SplitSlash(Tail(s), Append(cur, Head(s)))

\* pathlib drops empty and '.' parts and keeps '..'
RECURSIVE NormParts(_)
NormParts(ps) ==
  IF ps = <<>> THEN <<>>
  ELSE IF Head(ps) = <<>> \/ Head(ps) = <<".">> THEN NormParts(Tail(ps))
  ELSE <<Head(ps)>> \o NormParts(Tail(ps))

\* base_path / subtree / maven_path (pathlib's "/"): a right operand that starts
\* with '/' is absolute and replaces the left one
PathJoin(subtree, s) ==
  IF s # <<>> /\ Head(s) = "/"
  THEN [root |-> "/", segs |-> NormParts(SplitSlash(s, <<>>))]
  ELSE [root |-> subtree, segs |-> NormParts(SplitSlash(s, <<>>))]

get_code_path(g, a, v) == PathJoin("code", create_maven_path(g, a, v))
get_source_jar_path(g, a, v) == PathJoin("source-jar", create_maven_path(g, a, v))
get_git_bare_path(g, a) == PathJoin("git-bare", create_maven_path(g, a, <<>>))

----------------------------------------------------------------------------
(* SpecCoord: coordinate validation and path derivation on bounded inputs  *)

Alphabet == {"a", ".", "/", "~", " ", "#", "R99", "R29"}

RECURSIVE StringsUpTo(_)
StringsUpTo(n) ==
  IF n = 0 THEN {<<>>}
  ELSE LET shorter == StringsUpTo(n - 1)
       IN shorter \cup {Append(s, t) : s \in shorter, t \in Alphabet}

\* components paired with the varied one: a one-letter name and a 100-letter name
PlainComponents == {<<"a">>, <<"R99", "a">>}

\* one component ranges over every string of at most MaxLen tokens, the two others
\* over PlainComponents
CoordInputs ==
  LET rich == StringsUpTo(MaxLen)
  IN {<<x, p, q>> : x \in rich, p \in PlainComponents, q \in PlainComponents}
     \cup {<<p, x, q>> : x \in rich, p \in PlainComponents, q \in PlainComponents}
     \cup {<<p, q, x>> : x \in rich, p \in PlainComponents, q \in PlainComponents}

\* coordinates registered earlier; each of them passes validate_maven_coordinates
OtherInputs == {<<<<"a">>, <<"a">>, <<"a">>>>, <<<<"a", ".", "a">>, <<"a">>, <<"a">>>>}

NoPaths == [built |-> FALSE]

PathsOf(c) ==
  [code |-> get_code_path(c[1], c[2], c[3]),
   jar  |-> get_source_jar_path(c[1], c[2], c[3]),
   bare |-> get_git_bare_path(c[1], c[2])]

\* the caller's first statement: validate_maven_coordinates(group_id, artifact_id, version)
Validate ==
  /\ verdict = "none"
  /\ verdict' = IF ValidateMavenCoordinates(coord[1], coord[2], coord[3])
                THEN "accepted" ELSE "rejected"
  /\ UNCHANGED <<coord, other, cpaths, home, alt, envHome, res, origin, procs, source_uri>>

\* after validation the caller derives the storage paths from the arguments as passed
BuildPaths ==
  /\ verdict = "accepted"
  /\ cpaths = NoPaths
  /\ cpaths' = [built |-> TRUE, mine |-> PathsOf(coord), theirs |-> PathsOf(other)]
  /\ UNCHANGED <<coord, other, verdict, home, alt, envHome, res, origin, procs, source_uri>>

----------------------------------------------------------------------------
(* The world outside the storage root: local files, the HTTP server, the   *)
(* git remote                                                              *)

\* file and directory names whose first character is '.'
DotNames == {".git", ".hidden"}

\* a directory tree: files are paths of one or two names, dirs the top-level directories
EmptyTree == [files |-> {}, dirs |-> {}]

\* content of the archives: "J1" the local jar, "J2" the jar the HTTP server serves,
\* "corrupt" bytes that are not a zip archive
JarTree(j) ==
  IF j = "J1" THEN [files |-> {<<"A.java">>, <<"META-INF", "MANIFEST.MF">>}, dirs |-> {"META-INF"}]
  ELSE IF j = "J2" THEN [files |-> {<<"pkg", "B.java">>}, dirs |-> {"pkg"}]
  ELSE EmptyTree

\* what extractall has written when writing fails before the last entry of the archive
PartialTree(j) ==
  IF j = "J1" THEN [files |-> {<<"A.java">>}, dirs |-> {}]
  ELSE IF j = "J2" THEN [files |-> {}, dirs |-> {"pkg"}]
  ELSE EmptyTree

\* zipfile.ZipFile(...) opens it and testzip() finds no bad entry
IsValidZip(j) == j \in {"J1", "J2"}

\* the local filesystem outside the storage root, by path (stem + extension)
LocalEntry(stem, ext) ==
  IF stem = "/src/lib" /\ ext = ".jar" THEN [kind |-> "file", jar |-> "J1", tree |-> EmptyTree]
  ELSE IF stem = "/src/bad" /\ ext = ".jar" THEN [kind |-> "file", jar |-> "corrupt", tree |-> EmptyTree]
  ELSE IF stem = "/src/notes" /\ ext = ".txt" THEN [kind |-> "file", jar |-> "none", tree |-> EmptyTree]
  ELSE IF stem = "/src/dir" /\ ext = ""
    THEN [kind |-> "dir", jar |-> "none", tree |-> [files |-> {<<"A.java">>}, dirs |-> {}]]
  ELSE IF stem = "/src/gitdir" /\ ext = ""
    THEN [kind |-> "dir", jar |-> "none",
          tree |-> [files |-> {<<"B.java">>, <<".git", "HEAD">>}, dirs |-> {".git"}]]
  ELSE IF stem = "/src/emptydir" /\ ext = ""
    THEN [kind |-> "dir", jar |-> "none", tree |-> EmptyTree]
  ELSE IF stem = "/src/proj" /\ ext = ""
    THEN [kind |-> "dir", jar |-> "none",
          tree |-> [files |-> {<<"A.java">>, <<"pkg", "B.java">>}, dirs |-> {"pkg"}]]
  ELSE IF stem = "/src/hidden" /\ ext = ""
    THEN [kind |-> "dir", jar |-> "none",
          tree |-> [files |-> {<<"pkg", ".hidden">>}, dirs |-> {"pkg"}]]
  ELSE [kind |-> "missing", jar |-> "none", tree |-> EmptyTree]

\* refs of the git remote; "main" is a branch, "v1" a tag
RemoteRefs == {"main", "v1"}
Branches == {"main"}

RefTree(r) ==
  IF r = "main" THEN [files |-> {<<"A.java">>}, dirs |-> {}]
  ELSE [files |-> {<<"pkg", "B.java">>}, dirs |-> {"pkg"}]

\* a linked worktree: the ref's files plus the ".git" link file git writes
WorktreeTree(r) == [files |-> RefTree(r).files \cup {<<".git">>}, dirs |-> RefTree(r).dirs]

\* source URIs as urlparse splits them (path = stem + ext); scheme "git@" is the
\* scp-like form git@<netloc>:<path>
MkUri(scheme, netloc, stem, ext) ==
  [scheme |-> scheme, netloc |-> netloc, stem |-> stem, ext |-> ext]

UriLocalJar == MkUri("file", "", "/src/lib", ".jar")
UriBadJar == MkUri("file", "", "/src/bad", ".jar")
UriTxt == MkUri("file", "", "/src/notes", ".txt")
UriDir == MkUri("file", "", "/src/dir", "")
UriGitDir == MkUri("file", "", "/src/gitdir", "")
UriEmptyDir == MkUri("file", "", "/src/emptydir", "")
UriProj == MkUri("file", "", "/src/proj", "")
UriHiddenDir == MkUri("file", "", "/src/hidden", "")
UriMissing == MkUri("file", "", "/src/missing", ".jar")
UriFileRel == MkUri("file", "", "rel", "")
UriHttpJar == MkUri("https", "host", "/lib", ".jar")
UriHttpGit == MkUri("https", "host", "/repo", ".git")
UriHttpTxt == MkUri("https", "host", "/file", ".txt")
UriSsh == MkUri("git@", "host", "org/repo", "")
UriFtp == MkUri("ftp", "host", "/lib", ".jar")

\* parsed.path.startswith("/"), over the paths of the model
StartsWithSlash(stem) ==
  stem \in {"/src/lib", "/src/bad", "/src/notes", "/src/dir", "/src/gitdir", "/src/emptydir",
            "/src/hidden", "/src/missing", "/lib", "/repo", "/file"}

----------------------------------------------------------------------------
(* URI validation and classification                                       *)

\* validate_uri_format and its helpers: TRUE when it returns True, FALSE on ValueError
validate_uri_format(u) ==
  IF u.scheme = "git@" THEN u.netloc # "" /\ (u.stem # "" \/ u.ext # "")
  ELSE IF u.scheme = "file" THEN (u.stem # "" \/ u.ext # "") /\ StartsWithSlash(u.stem)
  ELSE IF u.scheme \in {"http", "https"}
    THEN u.netloc # "" /\ (u.stem # "" \/ u.ext # "") /\ u.ext \in {".jar", ".git"}
  ELSE FALSE

\* SourceProcessor.parse_uri: ok = FALSE when it raises ValueError
parse_uri(u) ==
  IF u.scheme = "git@" THEN [ok |-> TRUE, uri_type |-> "git", type |-> "repository"]
  ELSE IF u.scheme = "file"
    THEN LET e == LocalEntry(u.stem, u.ext)
         IN IF e.kind = "missing" THEN [ok |-> FALSE, uri_type |-> "file", type |-> "none"]
            ELSE IF e.kind = "file"
              THEN IF u.ext = ".jar" THEN [ok |-> TRUE, uri_type |-> "file", type |-> "jar"]
                   ELSE [ok |-> FALSE, uri_type |-> "file", type |-> "none"]
            ELSE [ok |-> TRUE, uri_type |-> "file", type |-> "directory"]
  ELSE IF u.scheme \in {"http", "https"}
    THEN IF u.ext = ".git" THEN [ok |-> TRUE, uri_type |-> "git", type |-> "repository"]
         ELSE IF u.ext = ".jar" THEN [ok |-> TRUE, uri_type |-> "http", type |-> "jar"]
         ELSE [ok |-> FALSE, uri_type |-> "http", type |-> "none"]
  ELSE [ok |-> FALSE, uri_type |-> "none", type |-> "none"]

----------------------------------------------------------------------------
(* Storage roots                                                           *)

GoodCoord == <<<<"g">>, <<"a">>, <<"1">>>>
BadCoord == <<<<"g">>, <<".", ".", "/">>, <<"1">>>>

\* the coordinates of the model that reach storage
ModelCoords == {GoodCoord}

CodePaths == {get_code_path(c[1], c[2], c[3]) : c \in ModelCoords}
JarPaths == {get_source_jar_path(c[1], c[2], c[3]) : c \in ModelCoords}
BarePaths == {get_git_bare_path(c[1], c[2]) : c \in ModelCoords}

\* source-jar/<path>/ : jar is the content of <artifact>-<version>-sources.jar, "none" without it
AbsentJar == [exists |-> FALSE, jar |-> "none"]
\* code/<path>/ : wt is the ref checked out when the directory is a linked worktree
AbsentCode == [exists |-> FALSE, tree |-> EmptyTree, wt |-> "none"]
\* git-bare/<path>/ : state is "absent", "partial" (what an interrupted clone leaves) or
\* "valid"; wts is git's worktree registry (the ref each registered path holds)
AbsentBare == [state |-> "absent", wts |-> [p \in CodePaths |-> "none"]]

EmptyRoot ==
  [dirs |-> FALSE,
   jar  |-> [p \in JarPaths |-> AbsentJar],
   bare |-> [p \in BarePaths |-> AbsentBare],
   code |-> [p \in CodePaths |-> AbsentCode]]

\* StorageManager.ensure_directories
ensure_directories(r) == [r EXCEPT !.dirs = TRUE]

\* the entries code_path.iterdir() yields
TopItems(t) == {f[1] : f \in {x \in t.files : Len(x) = 1}} \cup t.dirs
TopFiles(t) == {f[1] : f \in {x \in t.files : Len(x) = 1}}
FilesIn(t, d) == {f[2] : f \in {x \in t.files : Len(x) = 2 /\ x[1] = d}}

----------------------------------------------------------------------------
(* Status derivation (list_artifacts.get_artifact_status)                  *)

\* source_jar_path.exists() and any(source_jar_path.glob("*.jar"))
HasJarSource(sj) == sj.exists /\ sj.jar # "none"

\* variant: the label is given only to a repository git can open
HasGitSource_valid_only(gb) == gb.state = "valid"

\* git_bare_path.exists() and git_bare_path.is_dir()
HasGitSource(gb) == gb.state # "absent"

\* variant: the source-dir branch without the "not has_jar" test
HasDirSource_ignoring_jar(cd, has_jar, has_git) ==
  cd.exists /\ ~has_git /\ TopItems(cd.tree) # {}

\* the source-dir branch: the code directory has content and there is neither a jar
\* nor a bare repository
HasDirSource(cd, has_jar, has_git) ==
  cd.exists /\ ~has_jar /\ ~has_git /\ TopItems(cd.tree) # {}

\* the file-searchable loop over code_path.iterdir() and one level below
HasSourceFiles(cd) ==
  /\ cd.exists
  /\ \/ \E f \in TopFiles(cd.tree) : f \notin DotNames
     \/ \E d \in cd.tree.dirs : d \notin DotNames /\ FilesIn(cd.tree, d) # {}

\* the list status_parts, in the order the labels are appended; the function returns
\* its ",".join, which determines the list since no label holds a comma
get_artifact_status(r, g, a, v) ==
  LET sj == r.jar[get_source_jar_path(g, a, v)]
      gb == r.bare[get_git_bare_path(g, a)]
      cd == r.code[get_code_path(g, a, v)]
  IN (IF HasJarSource(sj) THEN <<"source-jar">> ELSE <<>>)
     \o (IF HasGitSource(gb) THEN <<"source-git">> ELSE <<>>)
     \o (IF HasDirSource(cd, HasJarSource(sj), HasGitSource(gb))
         THEN <<"source-dir">> ELSE <<>>)
     \o (IF HasSourceFiles(cd) THEN <<"file-searchable">> ELSE <<>>)

----------------------------------------------------------------------------
(* GitHandler.  Each operation returns the storage root it leaves (fs) and *)
(* the exception it raises (exc, "none" for a normal return).              *)

\* what "git clone --bare" does within the 300 s: "ok"; "auth" (the output holds
\* "Authentication failed"), "denied" (it holds "Permission denied") and "fail", a
\* non-zero exit after which git has removed what it created; "killed", a non-zero exit of a
\* process that died leaving its directory; "timeout" and "timeout_partial", the
\* child killed by subprocess.run before or after it created the directory
CloneOutcomes == {"ok", "auth", "denied", "fail", "killed", "timeout", "timeout_partial"}

BareAfterRun(net, b) ==
  IF net = "ok" THEN [b EXCEPT !.state = "valid"]
  ELSE IF net \in {"killed", "timeout_partial"} THEN [b EXCEPT !.state = "partial"]
  ELSE b

\* shutil.rmtree(bare_path) of the except-Exception branch
CleanupPartialClone(b) == IF b.state # "absent" THEN AbsentBare ELSE b

\* variant: every non-zero exit is reported as a clone failure
ClassifyCloneFailure_no_auth(net) ==
  IF net \in {"timeout", "timeout_partial"}
    THEN [exc |-> "GitCloneFailedError", msg |-> "Git clone operation timed out"]
  ELSE [exc |-> "GitCloneFailedError", msg |-> "Failed to clone repository"]

\* the exception a clone that did not succeed ends in, with the head of its message
ClassifyCloneFailure(net) ==
  IF net \in {"timeout", "timeout_partial"}
    THEN [exc |-> "GitCloneFailedError", msg |-> "Git clone operation timed out"]
  ELSE IF net \in {"auth", "denied"}
    THEN [exc |-> "GitAuthenticationError", msg |-> "Git authentication failed"]
  ELSE [exc |-> "GitCloneFailedError", msg |-> "Failed to clone repository"]

clone_bare_repository(r, g, a, net) ==
  LET bp == get_git_bare_path(g, a)
      ran == [r EXCEPT !.bare[bp] = BareAfterRun(net, @)]
      failure == ClassifyCloneFailure(net)
  IN IF r.bare[bp].state # "absent" THEN [fs |-> r, exc |-> "none", msg |-> "none"]
     ELSE IF net = "ok" THEN [fs |-> ran, exc |-> "none", msg |-> "none"]
     ELSE IF net \in {"timeout", "timeout_partial"}
       THEN [fs |-> ran, exc |-> failure.exc, msg |-> failure.msg]
     ELSE IF failure.exc = "GitAuthenticationError"
       THEN [fs |-> ran, exc |-> failure.exc, msg |-> failure.msg]
     ELSE [fs |-> [ran EXCEPT !.bare[bp] = CleanupPartialClone(@)],
           exc |-> failure.exc, msg |-> failure.msg]

\* variant: a missing bare repository is created by the update
update_repository_creating(r, g, a, net) ==
  LET bp == get_git_bare_path(g, a)
  IN IF r.bare[bp].state = "absent"
       THEN [fs |-> [r EXCEPT !.bare[bp].state = "valid"], ret |-> net = "ok"]
     ELSE [fs |-> r, ret |-> r.bare[bp].state = "valid" /\ net = "ok"]

\* update_repository: ret is the boolean returned; it never raises.  The fetch of a
\* bare clone (no fetch refspec) changes nothing the model tracks.
update_repository(r, g, a, net) ==
  LET bp == get_git_bare_path(g, a)
  IN IF r.bare[bp].state = "absent" THEN [fs |-> r, ret |-> FALSE]
     ELSE [fs |-> r, ret |-> r.bare[bp].state = "valid" /\ net = "ok"]

\* A repository as _get_default_branch sees it: head is the branch that
\* refs/remotes/origin/HEAD points to ("none" when symbolic-ref fails), refs the
\* branches that exist as origin/<name>
RemoteBranchNames == {"develop", "develop-v2", "feature", "main", "master"}

\* the order in which repo.remote("origin").refs lists the refs (by name)
RefOrder == <<"develop", "develop-v2", "feature", "main", "master">>

FirstRef(refs) == RefOrder[CHOOSE i \in 1..Len(RefOrder) :
                             /\ RefOrder[i] \in refs
                             /\ \A j \in 1..(i - 1) : RefOrder[j] \notin refs]

\* _get_default_branch(repo)
get_default_branch(repo) ==
  IF repo.head # "none" THEN repo.head
  ELSE IF "main" \in repo.refs THEN "main"
  ELSE IF "master" \in repo.refs THEN "master"
  ELSE IF "develop" \in repo.refs THEN "develop"
  ELSE IF repo.refs # {} THEN FirstRef(repo.refs)
  ELSE "main"

\* "git clone --bare" copies the remote's branches to refs/heads and creates neither
\* refs/remotes/origin/HEAD nor any origin/<name>
BareCloneRepo == [head |-> "none", refs |-> {}]

\* _validate_git_ref: rev-parse <ref>, then rev-parse origin/<ref>
validate_git_ref(ref) == ref \in RemoteRefs

\* "git worktree add <path> <ref>" succeeds unless the path is still registered or the
\* branch is checked out in another registered worktree
WorktreeAddOk(b, cp, ref) ==
  /\ b.wts[cp] = "none"
  /\ ~(ref \in Branches /\ \E p \in DOMAIN b.wts : p # cp /\ b.wts[p] = ref)

WorktreeAdd(r, bp, cp, ref) ==
  [r EXCEPT !.code[cp] = [exists |-> TRUE, tree |-> WorktreeTree(ref), wt |-> ref],
            !.bare[bp].wts[cp] = ref]

\* what "git worktree add" answers: "already exists" when the path is there already,
\* "failed" for any other refusal
WorktreeAddResult(r, bp, cp, ref) ==
  IF r.code[cp].exists THEN "already exists"
  ELSE IF ~WorktreeAddOk(r.bare[bp], cp, ref) THEN "failed"
  ELSE "ok"

\* variant: every refusal of "git worktree add" is an error
AddFailureExc_strict(answer) == "GitWorktreeError"

\* the except GitCommandError clause: a message holding "already exists" is a success
AddFailureExc(answer) == IF answer = "already exists" THEN "none" ELSE "GitWorktreeError"

\* variant: the ref is handed to "git worktree add" without being validated
create_worktree_try_unvalidated(r, bp, cp, git_ref) ==
  LET b == r.bare[bp]
      ref == IF git_ref = "None" THEN get_default_branch(BareCloneRepo) ELSE git_ref
      answer == WorktreeAddResult(r, bp, cp, ref)
  IN IF b.state # "valid" THEN [fs |-> r, exc |-> "GitWorktreeError", added |-> FALSE]
     ELSE IF answer = "ok" THEN [fs |-> WorktreeAdd(r, bp, cp, ref), exc |-> "none", added |-> TRUE]
     ELSE [fs |-> r, exc |-> AddFailureExc(answer), added |-> TRUE]

\* the part of create_worktree inside its try block; added tells whether
\* "git worktree add" was invoked
create_worktree_try(r, bp, cp, git_ref) ==
  LET b == r.bare[bp]
      ref == IF git_ref = "None" THEN get_default_branch(BareCloneRepo) ELSE git_ref
      answer == WorktreeAddResult(r, bp, cp, ref)
  IN IF b.state # "valid" THEN [fs |-> r, exc |-> "GitWorktreeError", added |-> FALSE]
     ELSE IF ~validate_git_ref(ref) THEN [fs |-> r, exc |-> "GitRefNotFoundError", added |-> FALSE]
     ELSE IF answer = "ok" THEN [fs |-> WorktreeAdd(r, bp, cp, ref), exc |-> "none", added |-> TRUE]
     ELSE [fs |-> r, exc |-> AddFailureExc(answer), added |-> TRUE]

create_worktree(r, g, a, v, git_ref) ==
  LET bp == get_git_bare_path(g, a)
      cp == get_code_path(g, a, v)
  IN IF r.bare[bp].state = "absent" THEN [fs |-> r, exc |-> "GitWorktreeError", added |-> FALSE]
     ELSE IF r.code[cp].exists THEN [fs |-> r, exc |-> "none", added |-> FALSE]
     ELSE create_worktree_try(r, bp, cp, git_ref)

\* "git worktree remove <path> --force" succeeds on a registered worktree whose
\* directory is that worktree
WorktreeRemoveOk(b, c, cp) == b.state = "valid" /\ b.wts[cp] # "none" /\ c.wt # "none"

\* variant: the directory is deleted with a plain recursive delete, which leaves the
\* entry in the bare repository's worktree registry
remove_worktree_rmtree(r, g, a, v) ==
  [fs |-> [r EXCEPT !.code[get_code_path(g, a, v)] = AbsentCode], ret |-> TRUE]

\* variant: a refusal of "git worktree remove" is not reported
remove_worktree_unreported(r, g, a, v) == [fs |-> r, ret |-> TRUE]

\* remove_worktree: ret is the boolean returned; it never raises
remove_worktree(r, g, a, v) ==
  LET bp == get_git_bare_path(g, a)
      cp == get_code_path(g, a, v)
      b == r.bare[bp]
  IN IF ~r.code[cp].exists THEN [fs |-> r, ret |-> TRUE]
     ELSE IF b.state # "absent"
       THEN IF WorktreeRemoveOk(b, r.code[cp], cp)
            THEN [fs |-> [r EXCEPT !.code[cp] = AbsentCode, !.bare[bp].wts[cp] = "none"],
                  ret |-> TRUE]
            ELSE [fs |-> r, ret |-> FALSE]
     ELSE [fs |-> [r EXCEPT !.code[cp] = AbsentCode], ret |-> TRUE]

----------------------------------------------------------------------------
(* register_source and its handlers                                        *)

\* what download_file meets: "ok" the server sends J2; "corrupt" it sends bytes that
\* are no zip archive; "fail" the request raises RequestException
DownloadOutcomes == {"ok", "corrupt", "fail"}

\* validate_jar_file returns a (truthy) dict or raises ValueError
validate_jar_file(j) == IF IsValidZip(j) THEN "valid" ELSE "ValueError"

\* GitHandler.is_git_repository(uri): only a string with one of the three prefixes can
\* be a repository; hasDotGit tells whether <path>/.git exists
is_git_repository(prefix, ext, hasDotGit) ==
  IF prefix = "git@" THEN TRUE
  ELSE IF prefix = "https://" /\ ext = ".git" THEN TRUE
  ELSE IF prefix = "file://" THEN hasDotGit \/ ext = ".git"
  ELSE FALSE

\* variant: the registration of a jar also extracts it into the code directory
handle_local_jar_file_extracting(r, k) ==
  LET e == LocalEntry(k.uri.stem, k.uri.ext)
      jp == get_source_jar_path(k.c[1], k.c[2], k.c[3])
      cp == get_code_path(k.c[1], k.c[2], k.c[3])
  IN IF e.kind = "missing" THEN [fs |-> r, exc |-> "ResourceNotFoundError"]
     ELSE IF validate_jar_file(e.jar) = "ValueError"
       THEN [fs |-> r, exc |-> "RegisterSourceError"]
     ELSE [fs |-> [r EXCEPT !.jar[jp] = [exists |-> TRUE, jar |-> e.jar],
                            !.code[cp] = [exists |-> TRUE, tree |-> JarTree(e.jar),
                                          wt |-> "none"]],
           exc |-> "none"]

\* _handle_local_jar_file: the ValueError of validate_jar_file is wrapped by the
\* except clause into a plain RegisterSourceError
handle_local_jar_file(r, k) ==
  LET e == LocalEntry(k.uri.stem, k.uri.ext)
      jp == get_source_jar_path(k.c[1], k.c[2], k.c[3])
  IN IF e.kind = "missing" THEN [fs |-> r, exc |-> "ResourceNotFoundError"]
     ELSE IF validate_jar_file(e.jar) = "ValueError"
       THEN [fs |-> r, exc |-> "RegisterSourceError"]
     ELSE [fs |-> [r EXCEPT !.jar[jp] = [exists |-> TRUE, jar |-> e.jar]], exc |-> "none"]

handle_remote_jar_file(r, k) ==
  LET jp == get_source_jar_path(k.c[1], k.c[2], k.c[3])
      made == [r EXCEPT !.jar[jp].exists = TRUE]
  IN IF k.net = "fail"
       THEN [fs |-> [made EXCEPT !.jar[jp].jar = "none"], exc |-> "DownloadFailedError"]
     ELSE LET got == IF k.net = "ok" THEN "J2" ELSE "corrupt"
              written == [made EXCEPT !.jar[jp].jar = got]
          IN IF validate_jar_file(got) = "ValueError"
             THEN [fs |-> written, exc |-> "DownloadFailedError"]
             ELSE [fs |-> written, exc |-> "none"]

\* shutil.rmtree(target_path) followed by safe_copy_tree(source_path, target_path)
ReplaceByCopy(r, cp, tree) ==
  [r EXCEPT !.code[cp] = [exists |-> TRUE, tree |-> tree, wt |-> "none"]]

handle_local_directory(r, k) ==
  LET e == LocalEntry(k.uri.stem, k.uri.ext)
      cp == get_code_path(k.c[1], k.c[2], k.c[3])
  IN IF e.kind = "missing" THEN [fs |-> r, exc |-> "ResourceNotFoundError"]
     ELSE IF e.kind # "dir" THEN [fs |-> r, exc |-> "InvalidSourceError"]
     ELSE IF is_git_repository("/", k.uri.ext, ".git" \in e.tree.dirs)
       THEN [fs |-> r, exc |-> "UnsupportedSourceTypeError"]
     ELSE [fs |-> ReplaceByCopy(r, cp, e.tree), exc |-> "none"]

handle_git_repository(r, k, git_ref) ==
  LET g == k.c[1]
      a == k.c[2]
      v == k.c[3]
      cloned == IF r.bare[get_git_bare_path(g, a)].state # "absent"
                THEN [fs |-> update_repository(r, g, a, k.net).fs, exc |-> "none"]
                ELSE clone_bare_repository(r, g, a, k.net)
      removed == IF cloned.fs.code[get_code_path(g, a, v)].exists
                 THEN remove_worktree(cloned.fs, g, a, v).fs
                 ELSE cloned.fs
  IN IF cloned.exc # "none" THEN cloned
     ELSE create_worktree(removed, g, a, v, git_ref)

\* the except clauses of register_source
ExcStatus(exc) ==
  IF exc = "none" THEN "registered_only"
  ELSE IF exc = "GitCloneFailedError" THEN "git_clone_failed"
  ELSE IF exc = "GitRefNotFoundError" THEN "git_ref_not_found"
  ELSE IF exc = "GitAuthenticationError" THEN "git_authentication_failed"
  ELSE IF exc = "ResourceNotFoundError" THEN "resource_not_found"
  ELSE IF exc = "DownloadFailedError" THEN "download_failed"
  ELSE IF exc = "InvalidSourceError" THEN "invalid_source"
  ELSE IF exc = "UnsupportedSourceTypeError" THEN "unsupported_source_type"
  ELSE "internal_error"

\* the keys of the dict returned
SuccessKeys == {"group_id", "artifact_id", "version", "status", "indexed", "message"}
ErrorKeys == {"status", "message"}

Returned(fs, exc) ==
  [fs |-> fs, status |-> ExcStatus(exc),
   keys |-> IF exc = "none" THEN SuccessKeys ELSE ErrorKeys, indexed |-> FALSE]

\* the storage side effects that precede parse_uri
PrepareStorage(r) == ensure_directories(r)

\* parse_uri and the dispatch on (uri_type, parsed_info["type"])
dispatch_source(r1, k) ==
  LET parsed == parse_uri(k.uri)
  IN IF ~parsed.ok THEN [fs |-> r1, exc |-> "UnsupportedSourceTypeError"]
     ELSE IF parsed.uri_type = "file" /\ parsed.type = "jar"
       THEN handle_local_jar_file(r1, k)
     ELSE IF parsed.uri_type = "file" /\ parsed.type = "directory"
       THEN handle_local_directory(r1, k)
     ELSE IF parsed.uri_type = "http" THEN handle_remote_jar_file(r1, k)
     ELSE handle_git_repository(r1, k, IF k.git_ref = "None" THEN "main" ELSE k.git_ref)

\* variant: the storage directories are created before the arguments are validated
register_source_prepare_first(r, k) ==
  LET r1 == PrepareStorage(r)
  IN IF ~ValidateMavenCoordinates(k.c[1], k.c[2], k.c[3]) THEN Returned(r1, "ValueError")
     ELSE IF ~validate_uri_format(k.uri) THEN Returned(r1, "ValueError")
     ELSE LET done == dispatch_source(r1, k)
          IN Returned(done.fs, done.exc)

register_source(r, k) ==
  IF ~ValidateMavenCoordinates(k.c[1], k.c[2], k.c[3]) THEN Returned(r, "ValueError")
  ELSE IF ~validate_uri_format(k.uri) THEN Returned(r, "ValueError")
  ELSE LET done == dispatch_source(PrepareStorage(r), k)
       IN Returned(done.fs, done.exc)

----------------------------------------------------------------------------
(* index_artifact                                                          *)

\* artifact_utils.is_artifact_code_available, on the root JAR_INDEXER_HOME names
is_artifact_code_available(er, g, a, v) ==
  LET cd == er.code[get_code_path(g, a, v)]
  IN cd.exists /\ TopItems(cd.tree) # {}

\* artifact_utils.get_registered_source_info, on the root JAR_INDEXER_HOME names;
\* no tool writes a source-dir/ subtree, so its second probe finds nothing
get_registered_source_info(er, g, a, v) ==
  LET sj == er.jar[get_source_jar_path(g, a, v)]
      gb == er.bare[get_git_bare_path(g, a)]
      cd == er.code[get_code_path(g, a, v)]
  IN IF sj.exists /\ sj.jar # "none"
       THEN [found |-> TRUE, source_type |-> "jar", local_root |-> "source-jar", git_ref |-> "None"]
     ELSE IF gb.state # "absent" /\ cd.exists
       THEN [found |-> TRUE, source_type |-> "git", local_root |-> "code", git_ref |-> "main"]
     ELSE IF cd.exists
       THEN [found |-> TRUE, source_type |-> "directory", local_root |-> "code", git_ref |-> "None"]
     ELSE [found |-> FALSE, source_type |-> "none", local_root |-> "none", git_ref |-> "None"]

EmptyDirCode == [exists |-> TRUE, tree |-> EmptyTree, wt |-> "none"]

\* source_extraction.create_git_worktree(bare_repo_path, target_dir, git_ref)
create_git_worktree(r, bp, cp, ref) ==
  LET b == r.bare[bp]
      gone == [r EXCEPT !.code[cp] = AbsentCode]
  IN IF b.state = "partial" THEN [fs |-> r, exc |-> "InvalidGitRepositoryError"]
     ELSE IF ref \notin RemoteRefs THEN [fs |-> r, exc |-> "GitRefNotFoundError"]
     ELSE IF ~WorktreeAddOk(b, cp, ref) THEN [fs |-> gone, exc |-> "GitCommandError"]
     ELSE [fs |-> WorktreeAdd(gone, bp, cp, ref), exc |-> "none"]

\* variant: the exception raised inside the extraction leaves as it is
WrapExtractionFailure_reraising(cause) == [exc |-> cause, msg |-> <<cause>>]

\* the except clause of _extract_source_to_code_directory:
\* raise ExtractionFailedError(f"Failed to extract source: {str(e)}")
WrapExtractionFailure(cause) ==
  [exc |-> "ExtractionFailedError", msg |-> <<"Failed to extract source: ", cause>>]

\* the except clauses of index_artifact and the message each puts into its result
IndexFailure(exc, msg) ==
  IF exc = "ArtifactNotRegisteredError" THEN [status |-> "not_registered", message |-> msg]
  ELSE IF exc = "ExtractionFailedError" THEN [status |-> "extraction_failed", message |-> msg]
  ELSE [status |-> "internal_error", message |-> <<"Internal error: ">> \o msg]

\* what the filesystem does to the writes of an extraction: "ok", or "disk_full" when
\* a write fails with OSError after the first entries have been written
IoOutcomes == {"ok", "disk_full"}

\* _extract_source_to_code_directory; cause is the message of the exception raised
\* inside it ("none" when it returns), exc and msg what leaves it
extract_source_to_code_directory(r, info, g, a, v, io) ==
  LET cp == get_code_path(g, a, v)
      jp == get_source_jar_path(g, a, v)
      bp == get_git_bare_path(g, a)
      \* shutil.rmtree(target_dir) if it exists, then target_dir.mkdir
      fresh == [r EXCEPT !.code[cp] = EmptyDirCode]
      failed(fs, cause) ==
        [fs |-> fs, cause |-> cause, exc |-> WrapExtractionFailure(cause).exc,
         msg |-> WrapExtractionFailure(cause).msg]
      done(fs) == [fs |-> fs, cause |-> "none", exc |-> "none", msg |-> <<>>]
  IN IF info.source_type = "jar"
       THEN LET sj == fresh.jar[jp]
            IN IF ~sj.exists THEN failed(fresh, "Source JAR directory not found")
               ELSE IF sj.jar = "none" THEN failed(fresh, "No JAR files found in directory")
               ELSE IF ~IsValidZip(sj.jar) THEN failed(fresh, "Invalid JAR file format")
               ELSE IF io = "disk_full"
                 THEN failed([fresh EXCEPT !.code[cp].tree = PartialTree(sj.jar)],
                             "No space left on device")
               ELSE done([fresh EXCEPT !.code[cp].tree = JarTree(sj.jar)])
     ELSE IF info.source_type = "directory"
       \* local_path is code/<path>, the target itself: copy_directory_source removes
       \* the target and then finds no source to copy
       THEN failed([fresh EXCEPT !.code[cp] = AbsentCode], "copy of the directory failed")
     ELSE IF fresh.bare[bp].state = "absent" THEN failed(fresh, "Git bare repository not found")
     ELSE LET w == create_git_worktree(fresh, bp, cp,
                     IF info.git_ref = "None" THEN "main" ELSE info.git_ref)
          IN IF w.exc # "none" THEN failed(w.fs, w.exc) ELSE done(w.fs)

\* index_artifact(group_id, artifact_id, version); er is the root the artifact_utils
\* helpers read, r the root StorageManager() resolves
index_artifact(r, er_is_home, other_root, g, a, v, io) ==
  LET raised(fs, exc, msg, cause) ==
        [fs |-> fs, status |-> <<IndexFailure(exc, msg).status>>,
         message |-> IndexFailure(exc, msg).message, cause |-> cause]
      returned(fs) ==
        [fs |-> fs, status |-> get_artifact_status(fs, g, a, v), message |-> <<>>,
         cause |-> "none"]
  IN IF ~ValidateMavenCoordinates(g, a, v)
       THEN raised(r, "ValueError", <<"invalid coordinates">>, "none")
     ELSE LET r1 == ensure_directories(r)
              er == IF er_is_home THEN r1 ELSE other_root
          IN IF is_artifact_code_available(er, g, a, v) THEN returned(r1)
             ELSE LET info == get_registered_source_info(er, g, a, v)
                  IN IF ~info.found
                       THEN raised(r1, "ArtifactNotRegisteredError", <<"is not registered">>,
                                   "none")
                     ELSE LET x == extract_source_to_code_directory(r1, info, g, a, v, io)
                          IN IF x.exc # "none" THEN raised(x.fs, x.exc, x.msg, x.cause)
                             ELSE returned(x.fs)

----------------------------------------------------------------------------
(* Spec: the tools acting on the storage root                              *)

NoRes == [op |-> "none"]

\* the concurrent callers of SpecRace
Procs == {1, 2}

\* a caller that has not been started
IdleProc == [job |-> "none", ref |-> "None", pc |-> "done", exc |-> "none", cloned |-> FALSE,
             answer |-> "none"]
NoProcs == [p \in Procs |-> IdleProc]

\* the ref is only looked at once the clone has succeeded
AnyClone == {[c |-> GoodCoord, uri |-> UriHttpGit, git_ref |-> ref, net |-> "ok"] :
               ref \in {"None", "v1", "nope"}}
            \cup {[c |-> GoodCoord, uri |-> UriHttpGit, git_ref |-> "None", net |-> n] :
                    n \in CloneOutcomes}
            \cup {[c |-> GoodCoord, uri |-> UriSsh, git_ref |-> "None", net |-> "ok"]}

AnyDownload == {[c |-> GoodCoord, uri |-> UriHttpJar, git_ref |-> "None", net |-> n] :
                  n \in DownloadOutcomes}

AnyLocal == {[c |-> GoodCoord, uri |-> u, git_ref |-> "None", net |-> "ok"] :
               u \in {UriLocalJar, UriBadJar, UriTxt, UriDir, UriGitDir, UriEmptyDir,
                      UriHiddenDir, UriMissing, UriFileRel, UriHttpTxt, UriFtp}}

AnyBadCoord == {[c |-> BadCoord, uri |-> u, git_ref |-> "None", net |-> "ok"] :
                  u \in {UriLocalJar, UriDir, UriHttpGit}}

RegisterCalls == AnyClone \cup AnyDownload \cup AnyLocal \cup AnyBadCoord

\* what an earlier run may have left under the directory JAR_INDEXER_HOME names
AltRoots ==
  { EmptyRoot,
    [ensure_directories(EmptyRoot) EXCEPT
       !.jar = [p \in JarPaths |-> [exists |-> TRUE, jar |-> "J1"]]],
    [ensure_directories(EmptyRoot) EXCEPT
       !.bare = [p \in BarePaths |-> [AbsentBare EXCEPT !.state = "valid"]],
       !.code = [p \in CodePaths |-> EmptyDirCode]] }

Init ==
  /\ coord = GoodCoord
  /\ other = GoodCoord
  /\ verdict = "none"
  /\ cpaths = NoPaths
  /\ home = EmptyRoot
  /\ envHome \in {"default", "alt"}
  /\ alt \in (IF envHome = "alt" THEN AltRoots ELSE {EmptyRoot})
  /\ res = NoRes
  /\ origin = BareCloneRepo
  /\ procs = NoProcs
  /\ source_uri = <<>>

\* the call repeats, argument for argument, the successful call before it
Repeats(last, k) ==
  last.op = "register" /\ last.call = k /\ last.status = <<"registered_only">>

RegisterSource ==
  \E k \in RegisterCalls :
    \E o \in {register_source(home, k)} :
       /\ home' = o.fs
       /\ res' = [op |-> "register", call |-> k, status |-> <<o.status>>,
                  keys |-> o.keys, indexed |-> o.indexed,
                  again |-> Repeats(res, k)]
       /\ UNCHANGED <<coord, other, verdict, cpaths, alt, envHome, origin, procs, source_uri>>

IndexArtifact ==
  \E c \in {GoodCoord, BadCoord}, io \in IoOutcomes :
    \E o \in {index_artifact(home, envHome = "default", alt, c[1], c[2], c[3], io)} :
       /\ home' = o.fs
       /\ res' = [op |-> "index", call |-> [c |-> c], status |-> o.status,
                  message |-> o.message, cause |-> o.cause]
       /\ UNCHANGED <<coord, other, verdict, cpaths, alt, envHome, origin, procs, source_uri>>

\* GitHandler.remove_worktree called for the coordinate
RemoveWorktree ==
  \E o \in {remove_worktree(home, GoodCoord[1], GoodCoord[2], GoodCoord[3])} :
     /\ home' = o.fs
     /\ res' = [op |-> "remove_worktree", ret |-> o.ret]
     /\ UNCHANGED <<coord, other, verdict, cpaths, alt, envHome, origin, procs, source_uri>>

Next == RegisterSource \/ IndexArtifact \/ RemoveWorktree

Spec == Init /\ [][Next]_vars

----------------------------------------------------------------------------
(* SpecGit: the GitHandler operations called one at a time                 *)

\* the storage root with its directories made, empty or holding for GoodCoord the
\* copy of a directory source
GitRoots ==
  { ensure_directories(EmptyRoot),
    ReplaceByCopy(ensure_directories(EmptyRoot),
                  get_code_path(GoodCoord[1], GoodCoord[2], GoodCoord[3]),
                  LocalEntry("/src/dir", "").tree) }

InitGit ==
  /\ coord = GoodCoord
  /\ other = GoodCoord
  /\ verdict = "none"
  /\ cpaths = NoPaths
  /\ home \in GitRoots
  /\ alt = EmptyRoot
  /\ envHome = "default"
  /\ res = NoRes
  /\ origin = BareCloneRepo
  /\ procs = NoProcs
  /\ source_uri = <<>>

CloneBare ==
  \E net \in CloneOutcomes :
    \E o \in {clone_bare_repository(home, GoodCoord[1], GoodCoord[2], net)} :
       /\ home' = o.fs
       /\ res' = [op |-> "clone", net |-> net, exc |-> o.exc, msg |-> o.msg]
       /\ UNCHANGED <<coord, other, verdict, cpaths, alt, envHome, origin, procs, source_uri>>

CreateWorktree ==
  \E ref \in {"None", "main", "v1", "nope"} :
    \E o \in {create_worktree(home, GoodCoord[1], GoodCoord[2], GoodCoord[3], ref)} :
       /\ home' = o.fs
       /\ res' = [op |-> "create_worktree", git_ref |-> ref, exc |-> o.exc, added |-> o.added]
       /\ UNCHANGED <<coord, other, verdict, cpaths, alt, envHome, origin, procs, source_uri>>

UpdateRepository ==
  \E net \in {"ok", "fail"} :
    \E o \in {update_repository(home, GoodCoord[1], GoodCoord[2], net)} :
       /\ home' = o.fs
       /\ res' = [op |-> "update", net |-> net, ret |-> o.ret]
       /\ UNCHANGED <<coord, other, verdict, cpaths, alt, envHome, origin, procs, source_uri>>

NextGit == CloneBare \/ CreateWorktree \/ RemoveWorktree \/ UpdateRepository

SpecGit == InitGit /\ [][NextGit]_vars

----------------------------------------------------------------------------
(* SpecBranch: _get_default_branch on bounded repositories                 *)

\* repositories whose origin/HEAD, when set, names one of their branches
OriginInputs ==
  {[head |-> h, refs |-> rs] : h \in {"none", "master", "feature"}, rs \in SUBSET RemoteBranchNames}
    \ {o \in [head : {"master", "feature"}, refs : SUBSET RemoteBranchNames] : o.head \notin o.refs}

InitBranch ==
  /\ coord = GoodCoord
  /\ other = GoodCoord
  /\ verdict = "none"
  /\ cpaths = NoPaths
  /\ home = EmptyRoot
  /\ alt = EmptyRoot
  /\ envHome = "default"
  /\ res = NoRes
  /\ origin \in OriginInputs
  /\ procs = NoProcs
  /\ source_uri = <<>>

ResolveDefaultBranch ==
  /\ res = NoRes
  /\ res' = [op |-> "default_branch", branch |-> get_default_branch(origin)]
  /\ UNCHANGED <<coord, other, verdict, cpaths, home, alt, envHome, origin, procs, source_uri>>

NextBranch == ResolveDefaultBranch

SpecBranch == InitBranch /\ [][NextBranch]_vars

----------------------------------------------------------------------------
(* SpecRace: two calls for the same coordinate run concurrently.  A call is *)
(* either register_source for the git source or GitHandler.create_worktree; *)
(* each filesystem test and each git command is one step.                   *)

GoodBare == get_git_bare_path(GoodCoord[1], GoodCoord[2])
GoodCode == get_code_path(GoodCoord[1], GoodCoord[2], GoodCoord[3])

\* the storage root before the two calls: nothing cloned yet, or the bare repository
\* cloned by an earlier registration of another version
RaceRoots ==
  { ensure_directories(EmptyRoot),
    [ensure_directories(EmptyRoot) EXCEPT !.bare[GoodBare].state = "valid"] }

StartProc(job, ref) ==
  [job |-> job, ref |-> ref, pc |-> IF job = "register" THEN "bare_check" ELSE "cw_bare",
   exc |-> "none", cloned |-> FALSE, answer |-> "none"]

InitRace ==
  /\ coord = GoodCoord
  /\ other = GoodCoord
  /\ verdict = "none"
  /\ cpaths = NoPaths
  /\ home \in RaceRoots
  /\ alt = EmptyRoot
  /\ envHome = "default"
  /\ res = NoRes
  /\ origin = BareCloneRepo
  /\ procs \in {[p \in Procs |-> StartProc(j[p], ref)] :
                  j \in [Procs -> {"register", "create_worktree"}], ref \in {"None", "v1"}}
  /\ source_uri = <<>>

\* the call returns (exc = "none") or raises exc
Finish(p, exc) == [procs EXCEPT ![p].pc = "done", ![p].exc = exc]

Goto(p, pc) == [procs EXCEPT ![p].pc = pc]

RaceFrame == UNCHANGED <<coord, other, verdict, cpaths, alt, envHome, res, origin, source_uri>>

\* _handle_git_repository: "if bare_repo_path.exists()", update_repository on that branch
BareCheck(p) ==
  /\ procs[p].pc = "bare_check"
  /\ IF home.bare[GoodBare].state # "absent"
       THEN /\ home' = update_repository(home, GoodCoord[1], GoodCoord[2], "ok").fs
            /\ procs' = Goto(p, "wt_check")
       ELSE /\ home' = home
            /\ procs' = Goto(p, "clone_check")
  /\ RaceFrame

\* clone_bare_repository: "if bare_path.exists(): return bare_path"
CloneCheck(p) ==
  /\ procs[p].pc = "clone_check"
  /\ procs' = Goto(p, IF home.bare[GoodBare].state # "absent" THEN "wt_check" ELSE "clone_run")
  /\ home' = home
  /\ RaceFrame

\* subprocess.run starts "git clone --bare": git refuses a destination that exists
\* (non-zero exit), otherwise it creates the directory and starts to fill it
CloneRun(p) ==
  /\ procs[p].pc = "clone_run"
  /\ IF home.bare[GoodBare].state # "absent"
       THEN /\ home' = home
            /\ procs' = Goto(p, "clone_cleanup")
       ELSE /\ home' = [home EXCEPT !.bare[GoodBare].state = "partial"]
            /\ procs' = Goto(p, "cloning")
  /\ RaceFrame

\* the clone ends: it succeeds, exits non-zero after removing what it created, or is
\* killed by the timeout; it cannot succeed once its directory has been deleted
CloneFinish(p) ==
  /\ procs[p].pc = "cloning"
  /\ \E net \in {"ok", "fail", "timeout_partial"} :
       IF net = "ok" /\ home.bare[GoodBare].state # "absent"
         THEN /\ home' = [home EXCEPT !.bare[GoodBare].state = "valid"]
              /\ procs' = [procs EXCEPT ![p].pc = "wt_check", ![p].cloned = TRUE]
       ELSE IF net = "timeout_partial"
         THEN /\ home' = home
              /\ procs' = Finish(p, ClassifyCloneFailure(net).exc)
       ELSE /\ home' = [home EXCEPT !.bare[GoodBare] = AbsentBare]
            /\ procs' = Goto(p, "clone_cleanup")
  /\ RaceFrame

\* the except-Exception clause: "if bare_path.exists(): shutil.rmtree(bare_path)"
CloneCleanup(p) ==
  /\ procs[p].pc = "clone_cleanup"
  /\ home' = [home EXCEPT !.bare[GoodBare] = CleanupPartialClone(@)]
  /\ procs' = Finish(p, ClassifyCloneFailure("fail").exc)
  /\ RaceFrame

\* _handle_git_repository: "if worktree_path.exists(): git_handler.remove_worktree(...)"
WorktreeCheck(p) ==
  /\ procs[p].pc = "wt_check"
  /\ home' = IF home.code[GoodCode].exists
             THEN remove_worktree(home, GoodCoord[1], GoodCoord[2], GoodCoord[3]).fs
             ELSE home
  /\ procs' = Goto(p, "cw_bare")
  /\ RaceFrame

\* create_worktree up to the validation of the ref
CreateWorktreeChecks(p) ==
  /\ procs[p].pc = "cw_bare"
  /\ home' = home
  /\ procs' =
       IF home.bare[GoodBare].state = "absent" THEN Finish(p, "GitWorktreeError")
       ELSE IF home.code[GoodCode].exists THEN Finish(p, "none")
       ELSE IF home.bare[GoodBare].state # "valid" THEN Finish(p, "GitWorktreeError")
       ELSE IF ~validate_git_ref(IF procs[p].ref = "None"
                                 THEN get_default_branch(BareCloneRepo) ELSE procs[p].ref)
         THEN Finish(p, "GitRefNotFoundError")
       ELSE Goto(p, "cw_add")
  /\ RaceFrame

\* repo.git.worktree("add", path, ref) and the except clauses after it
CreateWorktreeAdd(p) ==
  /\ procs[p].pc = "cw_add"
  /\ LET ref == IF procs[p].ref = "None" THEN get_default_branch(BareCloneRepo) ELSE procs[p].ref
         answer == IF home.bare[GoodBare].state # "valid" THEN "failed"
                   ELSE WorktreeAddResult(home, GoodBare, GoodCode, ref)
     IN /\ home' = IF answer = "ok" THEN WorktreeAdd(home, GoodBare, GoodCode, ref) ELSE home
        /\ procs' = [procs EXCEPT ![p].pc = "done", ![p].answer = answer,
                                  ![p].exc = IF answer = "ok" THEN "none"
                                             ELSE AddFailureExc(answer)]
  /\ RaceFrame

NextRace ==
  \E p \in Procs :
    \/ BareCheck(p)
    \/ CloneCheck(p)
    \/ CloneRun(p)
    \/ CloneFinish(p)
    \/ CloneCleanup(p)
    \/ WorktreeCheck(p)
    \/ CreateWorktreeChecks(p)
    \/ CreateWorktreeAdd(p)

SpecRace == InitRace /\ [][NextRace]_vars

----------------------------------------------------------------------------
(* SpecCopy: two register_source calls for the same coordinate and the same *)
(* local directory run concurrently.  Each filesystem test, each removal    *)
(* and each entry copied by shutil.copytree is one step.                    *)

\* the directories the two calls may be given
CopySources == {UriDir, UriProj}

SourceTree(uri) == LocalEntry(uri.stem, uri.ext).tree

\* the code directory before the two calls: absent, or the copy an earlier registration made
CopyRoots ==
  { ensure_directories(EmptyRoot),
    ReplaceByCopy(ensure_directories(EmptyRoot), GoodCode, SourceTree(UriDir)) }

\* todo: the entries of the source copytree has not come to yet; errors: the list of
\* errors copytree collects is not empty
StartCopy(uri) ==
  [job |-> "copy_dir", src |-> uri, pc |-> "ld_source", exc |-> "none",
   todo |-> TopItems(SourceTree(uri)), errors |-> FALSE]

InitCopy ==
  /\ coord = GoodCoord
  /\ other = GoodCoord
  /\ verdict = "none"
  /\ cpaths = NoPaths
  /\ home \in CopyRoots
  /\ alt = EmptyRoot
  /\ envHome = "default"
  /\ res = NoRes
  /\ origin = BareCloneRepo
  /\ procs \in {[p \in Procs |-> StartCopy(uri)] : uri \in CopySources}
  /\ source_uri = <<>>

\* _handle_local_directory up to "if target_path.exists()": the checks of the source
LocalDirectoryChecks(p) ==
  /\ procs[p].pc = "ld_source"
  /\ LET e == LocalEntry(procs[p].src.stem, procs[p].src.ext)
     IN procs' =
          IF e.kind = "missing" THEN Finish(p, "ResourceNotFoundError")
          ELSE IF e.kind # "dir" THEN Finish(p, "InvalidSourceError")
          ELSE IF is_git_repository("/", procs[p].src.ext, ".git" \in e.tree.dirs)
            THEN Finish(p, "UnsupportedSourceTypeError")
          ELSE Goto(p, IF home.code[GoodCode].exists THEN "ld_rmtree" ELSE "sct_exists")
  /\ home' = home
  /\ RaceFrame

\* "shutil.rmtree(target_path)": FileNotFoundError when the directory has gone since
\* the test, re-raised as RegisterSourceError
LocalDirectoryRmtree(p) ==
  /\ procs[p].pc = "ld_rmtree"
  /\ IF home.code[GoodCode].exists
       THEN /\ home' = [home EXCEPT !.code[GoodCode] = AbsentCode]
            /\ procs' = Goto(p, "sct_exists")
       ELSE /\ home' = home
            /\ procs' = Finish(p, "RegisterSourceError")
  /\ RaceFrame

\* safe_copy_tree: "if target_dir.exists() and not overwrite: raise ValueError"
SafeCopyTreeExists(p) ==
  /\ procs[p].pc = "sct_exists"
  /\ procs' = IF home.code[GoodCode].exists THEN Finish(p, "RegisterSourceError")
              ELSE Goto(p, "sct_makedirs")
  /\ home' = home
  /\ RaceFrame

\* shutil.copytree: os.makedirs(dst) raises FileExistsError when dst exists
SafeCopyTreeMakedirs(p) ==
  /\ procs[p].pc = "sct_makedirs"
  /\ IF home.code[GoodCode].exists
       THEN /\ home' = home
            /\ procs' = Goto(p, "sct_cleanup")
       ELSE /\ home' = [home EXCEPT !.code[GoodCode] = EmptyDirCode]
            /\ procs' = Goto(p, "sct_copying")
  /\ RaceFrame

\* the files of the source below the top-level entry item
FilesOf(tree, item) == {f \in tree.files : f[1] = item}

\* copytree copies one top-level entry: a file is written with copy2, which fails
\* when dst has gone; a directory is created with os.makedirs, which fails when it
\* exists and otherwise creates dst as well; every failure is collected, not raised
CopyEntry(dir, tree, item) ==
  IF item \in tree.dirs
    THEN IF dir.exists /\ item \in dir.tree.dirs THEN [dir |-> dir, failed |-> TRUE]
         ELSE [dir |-> [exists |-> TRUE,
                        tree |-> [files |-> dir.tree.files \cup FilesOf(tree, item),
                                  dirs |-> dir.tree.dirs \cup {item}],
                        wt |-> "none"],
               failed |-> FALSE]
  ELSE IF ~dir.exists THEN [dir |-> dir, failed |-> TRUE]
  ELSE [dir |-> [dir EXCEPT !.tree.files = @ \cup FilesOf(tree, item)], failed |-> FALSE]

SafeCopyTreeCopyEntry(p) ==
  /\ procs[p].pc = "sct_copying"
  /\ \E item \in procs[p].todo :
       \E o \in {CopyEntry(home.code[GoodCode], SourceTree(procs[p].src), item)} :
         /\ home' = [home EXCEPT !.code[GoodCode] = o.dir]
         /\ procs' = [procs EXCEPT ![p].todo = @ \ {item},
                                   ![p].errors = @ \/ o.failed]
  /\ RaceFrame

\* the end of copytree: copystat(src, dst) fails when dst has gone; shutil.Error (an
\* OSError) is raised when errors were collected, otherwise safe_copy_tree returns
SafeCopyTreeFinish(p) ==
  /\ procs[p].pc = "sct_copying"
  /\ procs[p].todo = {}
  /\ procs' = IF procs[p].errors \/ ~home.code[GoodCode].exists THEN Goto(p, "sct_cleanup")
              ELSE Finish(p, "none")
  /\ home' = home
  /\ RaceFrame

\* "except OSError: if target_dir.exists(): shutil.rmtree(target_dir, ignore_errors=True)"
SafeCopyTreeCleanup(p) ==
  /\ procs[p].pc = "sct_cleanup"
  /\ home' = [home EXCEPT !.code[GoodCode] = AbsentCode]
  /\ procs' = Finish(p, "RegisterSourceError")
  /\ RaceFrame

NextCopy ==
  \E p \in Procs :
    \/ LocalDirectoryChecks(p)
    \/ LocalDirectoryRmtree(p)
    \/ SafeCopyTreeExists(p)
    \/ SafeCopyTreeMakedirs(p)
    \/ SafeCopyTreeCopyEntry(p)
    \/ SafeCopyTreeFinish(p)
    \/ SafeCopyTreeCleanup(p)

SpecCopy == InitCopy /\ [][NextCopy]_vars

----------------------------------------------------------------------------
(* SpecScan: scan_all_artifacts over the three storage roots.  A root is    *)
(* the set of its directories and the set of its files; a directory is the  *)
(* sequence of its names below the root, a name a sequence of characters    *)
(* (a file extension is one token).                                          *)

Digits == {"0", "1", "2", "5", "9"}

\* any(c.isdigit() for c in name)
HasDigit(name) == \E i \in 1..Len(name) : name[i] \in Digits

\* the extensions the code scan recognises
SourceSuffixes == {".java", ".kt", ".scala", ".groovy", ".class"}

IsSourceName(name) == name # <<>> /\ name[Len(name)] \in SourceSuffixes
IsJarName(name) == name # <<>> /\ name[Len(name)] = ".jar"
IsDotName(name) == name # <<>> /\ Head(name) \in {".", ".git"}

EmptyDirs == [dirs |-> {}, files |-> {}]

\* the directory d with the directories above it
WithParents(d) == {SubSeq(d, 1, i) : i \in 1..Len(d)}

\* the subtree gains directory d (and its parents) and the files named in d
AddDir(t, d, names) ==
  [dirs |-> t.dirs \cup WithParents(d),
   files |-> t.files \cup {[dir |-> d, name |-> n] : n \in names}]

\* Path.iterdir / glob("*") of directory d
ChildDirs(t, d) == {x \in t.dirs : Len(x) = Len(d) + 1 /\ SubSeq(x, 1, Len(d)) = d}
ChildFiles(t, d) == {f.name : f \in {x \in t.files : x.dir = d}}

\* ".".join(parts)
RECURSIVE JoinDots(_)
JoinDots(parts) ==
  IF parts = <<>> THEN <<>>
  ELSE IF Len(parts) = 1 THEN parts[1]
  ELSE parts[1] \o <<".">> \o JoinDots(Tail(parts))

\* the directory a storage path names, when it lies below the subtree
DirOf(path, subtree) == IF path.root = subtree THEN path.segs ELSE <<"/">>

\* get_artifact_status on this representation of the storage
artifact_status(fs, g, a, v) ==
  LET sj == DirOf(get_source_jar_path(g, a, v), "source-jar")
      gb == DirOf(get_git_bare_path(g, a), "git-bare")
      cd == DirOf(get_code_path(g, a, v), "code")
      has_jar == sj \in fs.jar.dirs /\ \E n \in ChildFiles(fs.jar, sj) : IsJarName(n)
      has_git == gb \in fs.bare.dirs
      has_dir == /\ cd \in fs.code.dirs /\ ~has_jar /\ ~has_git
                 /\ ChildDirs(fs.code, cd) \cup ChildFiles(fs.code, cd) # {}
      has_source_files ==
        /\ cd \in fs.code.dirs
        /\ \/ \E n \in ChildFiles(fs.code, cd) : ~IsDotName(n)
           \/ \E d \in ChildDirs(fs.code, cd) :
                ~IsDotName(d[Len(d)]) /\ ChildFiles(fs.code, d) # {}
  IN (IF has_jar THEN <<"source-jar">> ELSE <<>>)
     \o (IF has_git THEN <<"source-git">> ELSE <<>>)
     \o (IF has_dir THEN <<"source-dir">> ELSE <<>>)
     \o (IF has_source_files THEN <<"file-searchable">> ELSE <<>>)

\* the coordinate a directory stands for: the last name is the version, the one
\* before it the artifact, the rest joined by dots the group
KeyOfVersionDir(d) ==
  [group_id |-> JoinDots(SubSeq(d, 1, Len(d) - 2)), artifact_id |-> d[Len(d) - 1],
   version |-> d[Len(d)]]

\* first pass: the directories below a group directory that hold a *.jar
JarScanKeys(fs) ==
  {KeyOfVersionDir(d) : d \in {x \in fs.jar.dirs :
      /\ Len(x) >= 2
      /\ \E n \in ChildFiles(fs.jar, x) : IsJarName(n)
      /\ Len(x) >= 3}}

\* second pass: the directories below a group directory that hold HEAD, each with
\* the version directories of code/<group path>/<artifact>
GitScanKeys(fs) ==
  UNION {LET artifact_id == d[Len(d)]
             group_id == JoinDots(SubSeq(d, 1, Len(d) - 1))
             acd == DirOf(PathJoin("code", create_maven_path(group_id, artifact_id, <<>>)),
                          "code")
         IN IF acd \in fs.code.dirs
              THEN {[group_id |-> group_id, artifact_id |-> artifact_id,
                     version |-> vd[Len(vd)]] : vd \in ChildDirs(fs.code, acd)}
            ELSE {}
         : d \in {x \in fs.bare.dirs : Len(x) >= 2 /\ <<"HEAD">> \in ChildFiles(fs.bare, x)}}

\* third pass, the test os.walk applies to a directory: it or one of its
\* subdirectories holds a file with a source extension
LooksLikeVersionDir(t, d) ==
  /\ ChildFiles(t, d) \cup ChildDirs(t, d) # {}
  /\ \/ \E n \in ChildFiles(t, d) : IsSourceName(n)
     \/ \E sd \in ChildDirs(t, d) : \E n \in ChildFiles(t, sd) : IsSourceName(n)

CodeScanKeys(fs) ==
  {KeyOfVersionDir(d) : d \in {x \in fs.code.dirs :
      /\ LooksLikeVersionDir(fs.code, x)
      /\ Len(x) >= 3
      /\ HasDigit(x[Len(x)])}}

\* the order in which a directory listing yields a set of entries
RECURSIVE ListingOrder(_)
ListingOrder(S) ==
  IF S = {} THEN <<>>
  ELSE LET x == CHOOSE y \in S : TRUE IN <<x>> \o ListingOrder(S \ {x})

\* variant: the key is appended without the test against seen_artifacts
AppendUnseen_unchecked(fs, artifacts, key) ==
  Append(artifacts, [group_id |-> key.group_id, artifact_id |-> key.artifact_id,
                     version |-> key.version,
                     status |-> artifact_status(fs, key.group_id, key.artifact_id,
                                                key.version)])

\* "if artifact_key not in seen_artifacts": seen_artifacts holds the keys of artifacts
AppendUnseen(fs, artifacts, key) ==
  IF \E i \in 1..Len(artifacts) :
       /\ artifacts[i].group_id = key.group_id
       /\ artifacts[i].artifact_id = key.artifact_id
       /\ artifacts[i].version = key.version
    THEN artifacts
  ELSE Append(artifacts, [group_id |-> key.group_id, artifact_id |-> key.artifact_id,
                          version |-> key.version,
                          status |-> artifact_status(fs, key.group_id, key.artifact_id,
                                                     key.version)])

RECURSIVE ScanPass(_, _, _)
ScanPass(fs, artifacts, keys) ==
  IF keys = <<>> THEN artifacts
  ELSE ScanPass(fs, AppendUnseen(fs, artifacts, Head(keys)), Tail(keys))

\* scan_all_artifacts: source-jar, then git-bare, then code
scan_all_artifacts(fs) ==
  LET p1 == ScanPass(fs, <<>>, ListingOrder(JarScanKeys(fs)))
      p2 == ScanPass(fs, p1, ListingOrder(GitScanKeys(fs)))
  IN ScanPass(fs, p2, ListingOrder(CodeScanKeys(fs)))

\* what the storage may hold for g:a:1 and g.h:b:2
JarStates == {"none", "empty", "jar"}
CodeStates == {"absent", "empty", "flat", "package", "digit_package", "hidden"}

DirG == <<<<"g">>, <<"a">>>>
Dir1 == <<<<"g">>, <<"a">>, <<"1">>>>
Dir2 == <<<<"g">>, <<"h">>, <<"b">>, <<"2">>>>

StagedJar(t, d, st) ==
  IF st = "none" THEN t
  ELSE IF st = "empty" THEN AddDir(t, d, {})
  ELSE AddDir(t, d, {<<"x", ".jar">>})

CodeTree(t, d, st) ==
  IF st = "absent" THEN t
  ELSE IF st = "empty" THEN AddDir(t, d, {})
  ELSE IF st = "flat" THEN AddDir(t, d, {<<"A", ".java">>})
  ELSE IF st = "package" THEN AddDir(AddDir(t, d, {}), Append(d, <<"p">>), {<<"B", ".java">>})
  ELSE IF st = "digit_package"
    THEN AddDir(AddDir(t, d, {<<"A", ".java">>}), Append(d, <<"p", "2">>), {<<"B", ".java">>})
  ELSE AddDir(t, d, {<<".", "x">>})

ScanStorage(j1, b, c1, j2, c2) ==
  [jar |-> StagedJar(StagedJar(EmptyDirs, Dir1, j1), Dir2, j2),
   bare |-> IF b THEN AddDir(EmptyDirs, DirG, {<<"HEAD">>}) ELSE EmptyDirs,
   code |-> CodeTree(CodeTree(EmptyDirs, Dir1, c1), Dir2, c2)]

InitScan ==
  /\ coord = GoodCoord
  /\ other = GoodCoord
  /\ verdict = "none"
  /\ cpaths = NoPaths
  /\ home \in {ScanStorage(j1, b, c1, j2, c2) :
                 j1 \in JarStates, b \in BOOLEAN, c1 \in CodeStates,
                 j2 \in {"none", "jar"}, c2 \in {"absent", "flat"}}
  /\ alt = EmptyRoot
  /\ envHome = "default"
  /\ res = NoRes
  /\ origin = BareCloneRepo
  /\ procs = NoProcs
  /\ source_uri = <<>>

ScanAllArtifacts ==
  /\ res = NoRes
  /\ res' = [op |-> "scan", artifacts |-> scan_all_artifacts(home)]
  /\ UNCHANGED <<coord, other, verdict, cpaths, home, alt, envHome, origin, procs, source_uri>>

NextScan == ScanAllArtifacts

SpecScan == InitScan /\ [][NextScan]_vars

----------------------------------------------------------------------------
(* SpecList: list_artifacts (scan, filters, sort, pagination) on storages   *)
(* holding several versions of g:a.  A version filter is a string of        *)
(* characters.                                                              *)

MaxClauses == 2
MaxPage == 3
MaxPageSize == 2

\* ord(c) for the characters of the coordinates of the model
CodePoint(c) ==
  IF c = "." THEN 46 ELSE IF c = "0" THEN 48 ELSE IF c = "1" THEN 49
  ELSE IF c = "2" THEN 50 ELSE IF c = "5" THEN 53 ELSE IF c = "9" THEN 57
  ELSE IF c = "a" THEN 97 ELSE IF c = "b" THEN 98 ELSE IF c = "g" THEN 103
  ELSE IF c = "h" THEN 104 ELSE IF c = "p" THEN 112 ELSE 120

\* Python's s < t on strings
RECURSIVE StrLess(_, _)
StrLess(s, t) ==
  IF t = <<>> THEN FALSE
  ELSE IF s = <<>> THEN TRUE
  ELSE IF Head(s) # Head(t) THEN CodePoint(Head(s)) < CodePoint(Head(t))
  ELSE StrLess(Tail(s), Tail(t))

\* the sort key (group_id, artifact_id, version), compared as Python compares tuples
KeyLess(x, y) ==
  IF x.group_id # y.group_id THEN StrLess(x.group_id, y.group_id)
  ELSE IF x.artifact_id # y.artifact_id THEN StrLess(x.artifact_id, y.artifact_id)
  ELSE StrLess(x.version, y.version)

\* list.sort(key=...): stable, an element goes after the elements not greater than it
RECURSIVE InsertSorted(_, _)
InsertSorted(sorted, x) ==
  IF sorted = <<>> THEN <<x>>
  ELSE IF KeyLess(x, Head(sorted)) THEN <<x>> \o sorted
  ELSE <<Head(sorted)>> \o InsertSorted(Tail(sorted), x)

RECURSIVE SortArtifacts(_)
SortArtifacts(l) ==
  IF l = <<>> THEN <<>> ELSE InsertSorted(SortArtifacts(SubSeq(l, 1, Len(l) - 1)), l[Len(l)])

\* str.split(sep) for a one-character separator
RECURSIVE SplitOn(_, _, _)
SplitOn(s, sep, cur) ==
  IF s = <<>> THEN <<cur>>
  ELSE IF Head(s) = sep THEN <<cur>> \o SplitOn(Tail(s), sep, <<>>)
  ELSE SplitOn(Tail(s), sep, Append(cur, Head(s)))

\* one part of the filter: the operator prefixes are tried in the order >=, <=, >, <, =
ParseClause(part) ==
  LET rest(n) == Strip(SubSeq(part, n + 1, Len(part)))
  IN IF StartsWith(part, <<">", "=">>) THEN [op |-> ">=", version |-> rest(2)]
     ELSE IF StartsWith(part, <<"<", "=">>) THEN [op |-> "<=", version |-> rest(2)]
     ELSE IF StartsWith(part, <<">">>) THEN [op |-> ">", version |-> rest(1)]
     ELSE IF StartsWith(part, <<"<">>) THEN [op |-> "<", version |-> rest(1)]
     ELSE IF StartsWith(part, <<"=">>) THEN [op |-> "==", version |-> rest(1)]
     ELSE [op |-> "==", version |-> part]

RECURSIVE ParseParts(_)
ParseParts(parts) ==
  IF parts = <<>> THEN <<>>
  ELSE LET part == Strip(Head(parts))
       IN IF part = <<>> THEN ParseParts(Tail(parts))
          ELSE <<ParseClause(part)>> \o ParseParts(Tail(parts))

parse_version_filter(version_filter) == ParseParts(SplitOn(version_filter, ",", <<>>))

DigitValue(c) ==
  IF c = "0" THEN 0 ELSE IF c = "1" THEN 1 ELSE IF c = "2" THEN 2 ELSE IF c = "5" THEN 5 ELSE 9

\* packaging.version.parse on the strings of digits, "." and "x": it accepts the
\* dot-separated non-empty runs of digits and raises InvalidVersion for the rest
IsRelease(s) ==
  LET pieces == SplitOn(s, ".", <<>>)
  IN \A i \in 1..Len(pieces) :
       pieces[i] # <<>> /\ \A k \in 1..Len(pieces[i]) : pieces[i][k] \in Digits

RECURSIVE NumberOf(_)
NumberOf(piece) ==
  IF piece = <<>> THEN 0
  ELSE 10 * NumberOf(SubSeq(piece, 1, Len(piece) - 1)) + DigitValue(piece[Len(piece)])

\* the release tuple of a parsed version
Release(s) == LET pieces == SplitOn(s, ".", <<>>)
              IN [i \in 1..Len(pieces) |-> NumberOf(pieces[i])]

\* Version.__lt__: release tuples compared after padding with zeros
RECURSIVE ReleaseLess(_, _)
ReleaseLess(x, y) ==
  IF x = <<>> /\ y = <<>> THEN FALSE
  ELSE LET hx == IF x = <<>> THEN 0 ELSE Head(x)
           hy == IF y = <<>> THEN 0 ELSE Head(y)
       IN IF hx # hy THEN hx < hy
          ELSE ReleaseLess(IF x = <<>> THEN x ELSE Tail(x), IF y = <<>> THEN y ELSE Tail(y))

\* the comparison a clause asks for, on two versions that parse
Satisfies(v, op, cv) ==
  LET lt == ReleaseLess(Release(v), Release(cv))
      gt == ReleaseLess(Release(cv), Release(v))
  IN IF op = "==" THEN ~lt /\ ~gt
     ELSE IF op = ">" THEN gt
     ELSE IF op = ">=" THEN ~lt
     ELSE IF op = "<" THEN lt
     ELSE ~gt

\* the try block: "raise" when a constraint version does not parse before a clause fails
RECURSIVE CheckParsed(_, _)
CheckParsed(v, constraints) ==
  IF constraints = <<>> THEN "true"
  ELSE IF ~IsRelease(Head(constraints).version) THEN "raise"
  ELSE IF ~Satisfies(v, Head(constraints).op, Head(constraints).version) THEN "false"
  ELSE CheckParsed(v, Tail(constraints))

\* the except block: only the == constraints are looked at
CheckStrings(v, constraints) ==
  \A i \in 1..Len(constraints) : constraints[i].op = "==" => v = constraints[i].version

check_version_constraint(artifact_version, constraints) ==
  IF ~IsRelease(artifact_version) THEN CheckStrings(artifact_version, constraints)
  ELSE LET r == CheckParsed(artifact_version, constraints)
       IN IF r = "raise" THEN CheckStrings(artifact_version, constraints) ELSE r = "true"

\* "None" stands for an argument that is not given
None == <<"None">>

\* the filter loop of list_artifacts for one artifact
PassesFilters(e, k) ==
  /\ k.group_filter = None \/ k.group_filter = <<>> \/ StartsWith(e.group_id, k.group_filter)
  /\ k.artifact_filter = None \/ k.artifact_filter = <<>>
       \/ StartsWith(e.artifact_id, k.artifact_filter)
  /\ k.version_filter = None \/ k.version_filter = <<>>
       \/ check_version_constraint(e.version, parse_version_filter(k.version_filter))
  /\ k.status_filter = {} \/ k.status_filter \subseteq {e.status[i] : i \in 1..Len(e.status)}

RECURSIVE FilterArtifacts(_, _)
FilterArtifacts(l, k) ==
  IF l = <<>> THEN <<>>
  ELSE (IF PassesFilters(Head(l), k) THEN <<Head(l)>> ELSE <<>>) \o FilterArtifacts(Tail(l), k)

\* variant: the slice starts at page * page_size
PageStart_from_zero(page, page_size) == page * page_size

\* start_idx = (page - 1) * page_size
PageStart(page, page_size) == (page - 1) * page_size

\* l[start:end] of Python, start >= 0
Slice(l, start, end) ==
  SubSeq(l, start + 1, IF end < Len(l) THEN end ELSE Len(l))

\* list_artifacts; page = 0 or page_size = 0 stands for None
list_artifacts(fs, k) ==
  LET filtered == SortArtifacts(FilterArtifacts(scan_all_artifacts(fs), k))
      total_count == Len(filtered)
  IN IF k.page # 0 /\ k.page_size # 0
       THEN [status |-> "success",
             pagination |-> [page |-> k.page, total_count |-> total_count,
                             total_pages |-> (total_count + k.page_size - 1) \div k.page_size],
             artifacts |-> Slice(filtered, PageStart(k.page, k.page_size),
                                 PageStart(k.page, k.page_size) + k.page_size)]
     ELSE [status |-> "success",
           pagination |-> [page |-> 1, total_count |-> total_count, total_pages |-> 1],
           artifacts |-> filtered]

\* version strings: the four of the example, one equal to 1.5.0 as a version but not
\* as a string, and one packaging does not parse
V100 == <<"1", ".", "0", ".", "0">>
V150 == <<"1", ".", "5", ".", "0">>
V200 == <<"2", ".", "0", ".", "0">>
V250 == <<"2", ".", "5", ".", "0">>
V15 == <<"1", ".", "5">>
V10x == <<"1", ".", "0", ".", "x">>

VersionDir(v) == <<<<"g">>, <<"a">>, v>>

\* the storage: the jars of the versions staged, 1.5 registered as a directory or not
ListStorage(jars, dir15) ==
  LET RECURSIVE Stage(_, _)
      Stage(t, vs) == IF vs = {} THEN t
                      ELSE LET v == CHOOSE x \in vs : TRUE
                           IN Stage(StagedJar(t, VersionDir(v), "jar"), vs \ {v})
  IN [jar |-> Stage(EmptyDirs, jars),
      bare |-> EmptyDirs,
      code |-> IF dir15 THEN CodeTree(EmptyDirs, VersionDir(V15), "flat") ELSE EmptyDirs]

\* the operators a clause may be written with
ClauseOps == {<<>>, <<"=">>, <<"=", "=">>, <<">">>, <<">", "=">>, <<"<">>, <<"<", "=">>}
ClauseVersions == {V150, V250, V10x}
Clauses == {[op |-> o, version |-> v] : o \in ClauseOps, v \in ClauseVersions}

\* the filter string of a sequence of clauses
RECURSIVE RenderFilter(_)
RenderFilter(cs) ==
  IF cs = <<>> THEN <<>>
  ELSE IF Len(cs) = 1 THEN cs[1].op \o cs[1].version
  ELSE cs[1].op \o cs[1].version \o <<",">> \o RenderFilter(Tail(cs))

ClauseLists == UNION {[1..n -> Clauses] : n \in 1..MaxClauses}

NoFilters == [page |-> 0, page_size |-> 0, group_filter |-> None, artifact_filter |-> None,
              version_filter |-> None, clauses |-> <<>>, status_filter |-> {}]

\* the calls: one with a version filter, a page of the whole list, or one of the
\* other filters
ListCalls ==
  {[NoFilters EXCEPT !.version_filter = RenderFilter(cs), !.clauses = cs] : cs \in ClauseLists}
  \cup {[NoFilters EXCEPT !.page = p, !.page_size = ps] : p \in 0..MaxPage, ps \in 0..MaxPageSize}
  \cup {[NoFilters EXCEPT !.group_filter = <<"g">>], [NoFilters EXCEPT !.group_filter = <<"h">>],
        [NoFilters EXCEPT !.artifact_filter = <<"a">>],
        [NoFilters EXCEPT !.status_filter = {"source-jar"}],
        [NoFilters EXCEPT !.status_filter = {"source-dir", "file-searchable"}]}

InitList ==
  /\ coord = GoodCoord
  /\ other = GoodCoord
  /\ verdict = "none"
  /\ cpaths = NoPaths
  /\ home \in {ListStorage(x \cup y, d) : x \in {{}, {V100, V200}},
                                          y \in SUBSET {V150, V250, V10x}, d \in BOOLEAN}
  /\ alt = EmptyRoot
  /\ envHome = "default"
  /\ res = NoRes
  /\ origin = BareCloneRepo
  /\ procs = NoProcs
  /\ source_uri = <<>>

ListArtifacts ==
  /\ res = NoRes
  /\ \E k \in ListCalls :
       \E o \in {list_artifacts(home, k)} :
         res' = [op |-> "list", call |-> k, status |-> o.status, pagination |-> o.pagination,
                 artifacts |-> o.artifacts]
  /\ UNCHANGED <<coord, other, verdict, cpaths, home, alt, envHome, origin, procs, source_uri>>

NextList == ListArtifacts

SpecList == InitList /\ [][NextList]_vars

----------------------------------------------------------------------------
(* SpecUri: SourceProcessor.parse_uri on bounded strings.  A string is a    *)
(* sequence of characters; the inputs are the concatenations of at most     *)
(* MaxUriLen pieces.                                                        *)

MaxUriLen == 4

UriPieces == {"git@", "@", ":", "h", "/p", ".git", ".jar", "https://", "http://", "file://", "?q"}

PieceChars(t) ==
  IF t = "git@" THEN <<"g", "i", "t", "@">>
  ELSE IF t = "/p" THEN <<"/", "p">>
  ELSE IF t = ".git" THEN <<".", "g", "i", "t">>
  ELSE IF t = ".jar" THEN <<".", "j", "a", "r">>
  ELSE IF t = "https://" THEN <<"h", "t", "t", "p", "s", ":", "/", "/">>
  ELSE IF t = "http://" THEN <<"h", "t", "t", "p", ":", "/", "/">>
  ELSE IF t = "file://" THEN <<"f", "i", "l", "e", ":", "/", "/">>
  ELSE IF t = "?q" THEN <<"?", "q">>
  ELSE <<t>>

RECURSIVE UriStringsUpTo(_)
UriStringsUpTo(n) ==
  IF n = 0 THEN {<<>>}
  ELSE LET shorter == UriStringsUpTo(n - 1)
       IN shorter \cup {s \o PieceChars(t) : s \in shorter, t \in UriPieces}

\* s.endswith(p), s.find(c) + 1
EndsWith(s, p) == Len(p) <= Len(s) /\ SubSeq(s, Len(s) - Len(p) + 1, Len(s)) = p
IndexOf(s, cs) ==
  IF \E i \in 1..Len(s) : s[i] \in cs
  THEN CHOOSE i \in 1..Len(s) : s[i] \in cs /\ \A k \in 1..(i - 1) : s[k] \notin cs
  ELSE 0

\* the letters of the model's strings, and urllib's scheme_chars among its characters
Letters == {"g", "i", "t", "h", "p", "s", "j", "a", "r", "q", "f", "l", "e"}
scheme_chars == Letters \cup {"."}

\* urllib.parse.urlparse on a string without ';' and '#': the scheme before the first
\* ':' when it starts with a letter and holds scheme characters only, the netloc
\* between a leading '//' and the next '/' or '?', then path and query
urlparse(s) ==
  LET i == IndexOf(s, {":"})
      hasScheme == i > 1 /\ s[1] \in Letters /\ \A k \in 1..(i - 1) : s[k] \in scheme_chars
      scheme == IF hasScheme THEN SubSeq(s, 1, i - 1) ELSE <<>>
      url == IF hasScheme THEN SubSeq(s, i + 1, Len(s)) ELSE s
      hasNetloc == StartsWith(url, <<"/", "/">>)
      after == IF hasNetloc THEN SubSeq(url, 3, Len(url)) ELSE url
      d == IndexOf(after, {"/", "?"})
      netloc == IF ~hasNetloc THEN <<>>
                ELSE IF d = 0 THEN after ELSE SubSeq(after, 1, d - 1)
      rest == IF ~hasNetloc THEN url
              ELSE IF d = 0 THEN <<>> ELSE SubSeq(after, d, Len(after))
      q == IndexOf(rest, {"?"})
  IN [scheme |-> scheme, netloc |-> netloc,
      path |-> IF q = 0 THEN rest ELSE SubSeq(rest, 1, q - 1),
      query |-> IF q = 0 THEN <<>> ELSE SubSeq(rest, q + 1, Len(rest))]

\* ParseResult.geturl() for the schemes http and https (both in uses_netloc)
geturl(p) ==
  LET slashed == IF p.path # <<>> /\ Head(p.path) # "/" THEN <<"/">> \o p.path ELSE p.path
      url == IF p.netloc # <<>> \/ ~StartsWith(p.path, <<"/", "/">>)
             THEN <<"/", "/">> \o p.netloc \o slashed
             ELSE p.path
  IN p.scheme \o <<":">> \o url \o (IF p.query # <<>> THEN <<"?">> \o p.query ELSE <<>>)

DotGit == <<".", "g", "i", "t">>
DotJar == <<".", "j", "a", "r">>

\* a classification that raised ValueError
Unsupported == [ok |-> FALSE, uri_type |-> "none", type |-> "none", url |-> <<>>]

\* what Path(parsed.path) names on the local filesystem, repeated slashes counting
\* as one: the working directory for the empty path, the root, the directory /p, the
\* files /p.jar and /p.git
PathKind(path) ==
  LET segs == NormParts(SplitSlash(path, <<>>))
  IN IF segs = <<>> THEN "dir"
     ELSE IF Head(path) # "/" THEN "missing"
     ELSE IF segs = <<<<"p">>>> THEN "dir"
     ELSE IF segs = <<<<"p">> \o DotJar>> \/ segs = <<<<"p">> \o DotGit>> THEN "file"
     ELSE "missing"

parse_file_uri(p) ==
  IF PathKind(p.path) = "missing" THEN Unsupported
  ELSE IF PathKind(p.path) = "file"
    THEN IF EndsWith(p.path, DotJar)
         THEN [ok |-> TRUE, uri_type |-> "file", type |-> "jar", url |-> p.path]
         ELSE Unsupported
  ELSE [ok |-> TRUE, uri_type |-> "file", type |-> "directory", url |-> p.path]

parse_https_uri(p) ==
  LET url == geturl(p)
  IN IF EndsWith(url, DotGit)
       THEN [ok |-> TRUE, uri_type |-> "git", type |-> "repository", url |-> url]
     ELSE IF EndsWith(url, DotJar)
       THEN [ok |-> TRUE, uri_type |-> "http", type |-> "jar", url |-> url]
     ELSE Unsupported

\* _parse_ssh_git_uri: split("@", 1), then split(":", 1) of what follows the '@'
parse_ssh_git_uri(s) ==
  LET host_repo == SubSeq(s, IndexOf(s, {"@"}) + 1, Len(s))
      c == IndexOf(host_repo, {":"})
      host == SubSeq(host_repo, 1, c - 1)
      repo_path == SubSeq(host_repo, c + 1, Len(host_repo))
  IN IF c = 0 THEN Unsupported
     ELSE [ok |-> TRUE, uri_type |-> "git", type |-> "repository",
           url |-> <<"g", "i", "t", "@">> \o host \o <<":">> \o repo_path]

\* SourceProcessor.parse_uri on the string itself
parse_uri_string(s) ==
  IF s = <<>> THEN Unsupported
  ELSE IF StartsWith(s, <<"g", "i", "t", "@">>) THEN parse_ssh_git_uri(s)
  ELSE LET parsed == urlparse(s)
       IN IF parsed.scheme = <<"f", "i", "l", "e">> THEN parse_file_uri(parsed)
          ELSE IF parsed.scheme \in {<<"h", "t", "t", "p", "s">>, <<"h", "t", "t", "p">>}
            THEN parse_https_uri(parsed)
          ELSE Unsupported

InitUri ==
  /\ coord = GoodCoord
  /\ other = GoodCoord
  /\ verdict = "none"
  /\ cpaths = NoPaths
  /\ home = EmptyRoot
  /\ alt = EmptyRoot
  /\ envHome = "default"
  /\ res = NoRes
  /\ origin = BareCloneRepo
  /\ procs = NoProcs
  /\ source_uri \in UriStringsUpTo(MaxUriLen)

ParseUri ==
  /\ res = NoRes
  /\ \E o \in {parse_uri_string(source_uri)} :
       res' = [op |-> "parse_uri", ok |-> o.ok, uri_type |-> o.uri_type, type |-> o.type,
               url |-> o.url]
  /\ UNCHANGED <<coord, other, verdict, cpaths, home, alt, envHome, origin, procs, source_uri>>

NextUri == ParseUri

SpecUri == InitUri /\ [][NextUri]_vars

----------------------------------------------------------------------------
(* SpecCoord                                                               *)

InitCoord ==
  /\ coord \in CoordInputs
  /\ other \in OtherInputs
  /\ verdict = "none"
  /\ cpaths = NoPaths
  /\ home = EmptyRoot
  /\ alt = EmptyRoot
  /\ envHome = "default"
  /\ res = NoRes
  /\ origin = BareCloneRepo
  /\ procs = NoProcs
  /\ source_uri = <<>>

NextCoord == Validate \/ BuildPaths

SpecCoord == InitCoord /\ [][NextCoord]_vars

----------------------------------------------------------------------------
(* Properties                                                              *)

\* the three directories of GoodCoord under the root StorageManager() resolves
JarDir == home.jar[get_source_jar_path(GoodCoord[1], GoodCoord[2], GoodCoord[3])]
BareDir == home.bare[get_git_bare_path(GoodCoord[1], GoodCoord[2])]
CodeDir == home.code[get_code_path(GoodCoord[1], GoodCoord[2], GoodCoord[3])]

\* the status list_artifacts derives for GoodCoord
Status == get_artifact_status(home, GoodCoord[1], GoodCoord[2], GoodCoord[3])

\* C1: a register_source call that repeats, argument for argument, the successful
\* call before it leaves the storage root exactly as the first call left it (the
\* same single staged jar, the same bare repository and worktree, the same
\* directory content) and succeeds as well.
C1_RepeatedRegistrationIsIdempotent ==
  [][(res'.op = "register" /\ res'.again)
       => (home' = home /\ res'.status = <<"registered_only">>)]_vars

\* a git source registered twice in a row, its worktree in place
C1_Witness ==
  /\ res.op = "register" /\ res.again
  /\ res.call.uri = UriHttpGit
  /\ CodeDir.wt = "main" /\ BareDir.wts[get_code_path(GoodCoord[1], GoodCoord[2], GoodCoord[3])] = "main"

\* C2: when index_artifact is called for a coordinate whose code directory exists and
\* is non-empty, it extracts nothing (the code directory is left as it was) and
\* returns the status derived from what is on disk.
C2_ExistingCodeShortCircuits ==
  [][(/\ res'.op = "index" /\ res'.call.c = GoodCoord
      /\ CodeDir.exists /\ TopItems(CodeDir.tree) # {})
       => (/\ home'.code = home.code
           /\ res'.status = get_artifact_status(home', GoodCoord[1], GoodCoord[2], GoodCoord[3]))]_vars

\* C3: after a register_source call that failed in the bare clone (non-zero exit,
\* authentication failure, timeout) the bare repository directory does not exist.
C3_FailedCloneLeavesNoBareDirectory ==
  (res.op = "register" /\ res.status[1] \in {"git_clone_failed", "git_authentication_failed"})
    => BareDir.state = "absent"

\* C4: after a git registration that failed in the bare clone, the same call made
\* again with the remote reachable and the ref present returns registered_only.
C4_FailedCloneCanBeRetried ==
  [][(/\ res.op = "register"
      /\ res.status[1] \in {"git_clone_failed", "git_authentication_failed"}
      /\ res'.op = "register"
      /\ res'.call = [res.call EXCEPT !.net = "ok"])
       => res'.status = <<"registered_only">>]_vars

\* C5: a register_source call whose coordinates are invalid or whose URI fails the
\* format validation changes nothing under the storage root.
C5_RejectedArgumentsHaveNoSideEffects ==
  [][(/\ res'.op = "register"
      /\ \/ ~ValidateMavenCoordinates(res'.call.c[1], res'.call.c[2], res'.call.c[3])
         \/ ~validate_uri_format(res'.call.uri))
       => home' = home]_vars

\* a call with a URI of an unsupported scheme, made on a storage root that holds code
C5_Witness ==
  /\ res.op = "register" /\ res.call.uri = UriFtp
  /\ res.status = <<"internal_error">>
  /\ CodeDir.exists /\ home.dirs

\* C6: validate_maven_coordinates accepts a triple exactly when every component, as
\* passed, is a non-empty string over [a-zA-Z0-9._-] of at most 100 characters with
\* none of the patterns '..', './', '~', '//' and no separator or reserved
\* character, and the three lengths plus 20 are at most 250.
C6_AcceptsExactlyTheSafeTriples ==
  LET safe(c) == /\ MatchesSafePattern(c)
                 /\ StrLen(c) <= 100
                 /\ \A p \in {<<".", ".">>, <<".", "/">>, <<"~">>, <<"/", "/">>} : ~Contains(c, p)
                 /\ \A i \in 1..Len(c) : c[i] \notin {"/", "\\", ":", "*", "?", "\"", "<", ">", "|"}
      rawOk == /\ \A i \in 1..3 : safe(coord[i])
               /\ StrLen(coord[1]) + StrLen(coord[2]) + StrLen(coord[3]) + 20 <= 250
  IN verdict # "none" => (verdict = "accepted" <=> rawOk)

\* C7: two distinct validated triples get distinct code paths and distinct source-jar
\* paths, and two distinct (group, artifact) pairs get distinct bare-repository paths.
C7_DistinctCoordinatesDistinctPaths ==
  cpaths.built =>
    /\ coord # other => (cpaths.mine.code # cpaths.theirs.code /\ cpaths.mine.jar # cpaths.theirs.jar)
    /\ <<coord[1], coord[2]>> # <<other[1], other[2]>> => cpaths.mine.bare # cpaths.theirs.bare

\* C8: every register_source call returns a record whose status is one of the nine
\* documented values and whose "indexed" field is present and false.
C8_EveryRecordHasStatusAndIndexedFalse ==
  res.op = "register" =>
    /\ res.status[1] \in {"registered_only", "resource_not_found", "download_failed",
                          "invalid_source", "unsupported_source_type", "git_clone_failed",
                          "git_ref_not_found", "git_authentication_failed", "internal_error"}
    /\ "indexed" \in res.keys
    /\ res.indexed = FALSE

\* C9: with a source jar staged and no bare repository, the derived status is exactly
\* {source-jar} while the code directory does not exist, and exactly
\* {source-jar, file-searchable} once the code directory holds a non-dot file.
C9_JarStatusBeforeAndAfterExtraction ==
  (JarDir.exists /\ JarDir.jar # "none" /\ BareDir.state = "absent") =>
    /\ ~CodeDir.exists => Status = <<"source-jar">>
    /\ (CodeDir.exists /\ \E f \in TopFiles(CodeDir.tree) : f \notin DotNames)
         => Status = <<"source-jar", "file-searchable">>

\* the staged jar has been extracted by index_artifact
C9_Witness ==
  /\ res.op = "index" /\ res.status = <<"source-jar", "file-searchable">>
  /\ JarDir.jar = "J1" /\ CodeDir.tree = JarTree("J1") /\ BareDir.state = "absent"

\* C10: source-jar is present exactly when the source-jar directory exists and holds
\* a jar; source-git exactly when the bare repository directory exists; source-dir
\* exactly when the code directory exists, is non-empty and neither of the two holds;
\* source-dir never appears together with source-jar or source-git.
C10_SourceLabelsFollowTheDisk ==
  LET labels == {Status[i] : i \in 1..Len(Status)}
      jar == JarDir.exists /\ JarDir.jar # "none"
      git == BareDir.state # "absent"
      nonEmpty == CodeDir.exists /\ CodeDir.tree # EmptyTree
  IN /\ "source-jar" \in labels <=> jar
     /\ "source-git" \in labels <=> git
     /\ "source-dir" \in labels <=> (nonEmpty /\ ~jar /\ ~git)
     /\ "source-dir" \in labels => ("source-jar" \notin labels /\ "source-git" \notin labels)

\* an interrupted clone has left a bare directory next to a copied directory source:
\* the labels are source-git and file-searchable, not source-dir
C10_Witness ==
  /\ BareDir.state = "partial"
  /\ CodeDir.exists /\ CodeDir.wt = "none" /\ CodeDir.tree # EmptyTree
  /\ Status = <<"source-git", "file-searchable">>

\* C12: a code directory that is a worktree is registered in the bare repository at
\* its ref, and the bare repository registers no worktree for a path where no
\* worktree stands (no worktree is removed or replaced by a plain directory delete).
C12_WorktreeRegistryMatchesDisk ==
  LET cp == get_code_path(GoodCoord[1], GoodCoord[2], GoodCoord[3])
  IN /\ CodeDir.wt # "none" => BareDir.wts[cp] = CodeDir.wt
     /\ (BareDir.state # "absent" /\ BareDir.wts[cp] # "none")
          => (CodeDir.exists /\ CodeDir.wt # "none")

\* C13: after a git registration with ref r (main when none is given) has returned
\* registered_only, the bare repository exists and the code directory is a worktree
\* of it checked out at r, whatever stood at the code path before the call.
C13_GitRegistrationYieldsWorktreeAtRef ==
  (/\ res.op = "register" /\ res.status = <<"registered_only">>
   /\ res.call.uri \in {UriHttpGit, UriSsh})
    => (/\ BareDir.state # "absent"
        /\ CodeDir.exists
        /\ CodeDir.wt = (IF res.call.git_ref = "None" THEN "main" ELSE res.call.git_ref))

\* C14: whenever the worktree directory already exists, create_worktree returns
\* without raising, invokes no "git worktree add" and changes nothing on disk,
\* whatever the ref and whatever the state of the bare repository.
C14_ExistingWorktreeIsReturnedUntouched ==
  [][(res'.op = "create_worktree" /\ CodeDir.exists)
       => (home' = home /\ res'.exc = "none" /\ ~res'.added)]_vars

\* C15: "git worktree add" is invoked only with the bare repository present and the
\* (possibly defaulted) ref resolving; with the worktree directory absent, a missing
\* bare repository gives GitWorktreeError and an unresolvable ref
\* GitRefNotFoundError, in both cases without worktree-add and without creating the
\* directory.
C15_WorktreeAddOnlyAfterValidation ==
  [][res'.op = "create_worktree" =>
       LET ref == IF res'.git_ref = "None" THEN "main" ELSE res'.git_ref
       IN /\ res'.added => (BareDir.state # "absent" /\ ref \in RemoteRefs)
          /\ (~CodeDir.exists /\ BareDir.state = "absent")
               => (res'.exc = "GitWorktreeError" /\ ~res'.added /\ home' = home)
          /\ (~CodeDir.exists /\ BareDir.state = "valid" /\ ref \notin RemoteRefs)
               => (res'.exc = "GitRefNotFoundError" /\ ~res'.added /\ home' = home)]_vars

\* a call with an unknown ref on a cloned repository was refused
C15_Witness ==
  /\ res.op = "create_worktree" /\ res.git_ref = "nope"
  /\ res.exc = "GitRefNotFoundError"
  /\ BareDir.state = "valid" /\ ~CodeDir.exists

C20_UpdateNeverCreatesNorRaises ==
  [][res'.op = "update" =>
       /\ home' = home
       /\ BareDir.state = "absent" => ~res'.ret
       /\ BareDir.state = "valid" => (res'.ret <=> res'.net = "ok")
       /\ BareDir.state = "partial" => ~res'.ret]_vars

\* an update of a cloned repository whose fetch succeeded
C20_Witness ==
  res.op = "update" /\ res.net = "ok" /\ res.ret /\ BareDir.state = "valid"

\* C18: the default branch is the remote's symbolic HEAD when it can be read,
\* otherwise the first of main, master, develop that exists as origin/<name>,
\* otherwise the literal "main", whatever other remote branches exist.
C18_DefaultBranchFallbackOrder ==
  res.op = "default_branch" =>
    res.branch = (IF origin.head # "none" THEN origin.head
                  ELSE IF "main" \in origin.refs THEN "main"
                  ELSE IF "master" \in origin.refs THEN "master"
                  ELSE IF "develop" \in origin.refs THEN "develop"
                  ELSE "main")

\* C16: two concurrent create_worktree calls for the same coordinate and ref against
\* an existing bare repository both return without raising, the worktree being in
\* place; a "git worktree add" refused for another reason than "already exists"
\* raises GitWorktreeError.
C16_ConcurrentCreateWorktreeTolerated ==
  /\ (/\ \A p \in Procs : procs[p].job = "create_worktree" /\ procs[p].pc = "done"
      /\ BareDir.state = "valid")
       => (CodeDir.exists /\ \A p \in Procs : procs[p].exc = "none")
  /\ \A p \in Procs : procs[p].answer = "failed" => procs[p].exc = "GitWorktreeError"

\* both calls ran "git worktree add": one created the worktree, the other was told
\* that it already exists
C16_Witness ==
  /\ \A p \in Procs : procs[p].job = "create_worktree" /\ procs[p].pc = "done"
  /\ \E p, q \in Procs : procs[p].answer = "ok" /\ procs[q].answer = "already exists"

\* C17: once two concurrent register_source calls for the same git coordinate have
\* both returned, the bare repository exists if one of them completed its clone.
C17_LoserNeverDeletesWinnersClone ==
  (/\ \A p \in Procs : procs[p].job = "register" /\ procs[p].pc = "done"
   /\ \E p \in Procs : procs[p].cloned)
    => BareDir.state # "absent"

RegisteredUri(u) == res.op = "register" /\ res.call.c = GoodCoord /\ res.call.uri = u

\* C22: register_source with a file:// URI naming an existing .jar file that fails the
\* integrity check returns invalid_source and stages no file under source-jar/.
C22_CorruptLocalJarIsInvalidSource ==
  [][RegisteredUri(UriBadJar)' =>
       (res'.status = <<"invalid_source">> /\ home'.jar = home.jar)]_vars

\* C23: when the downloaded file fails the integrity check the call reports
\* download_failed and no <artifact>-<version>-sources.jar is left, so the status
\* of the coordinate does not hold source-jar.
C23_CorruptDownloadIsDeleted ==
  [][(RegisteredUri(UriHttpJar)' /\ res'.call.net = "corrupt") =>
       /\ res'.status = <<"download_failed">>
       /\ JarDir'.jar = "none"
       /\ \A i \in 1..Len(Status') : Status'[i] # "source-jar"]_vars

\* C24: register_source with a file:// URI naming a directory that holds a .git entry
\* returns unsupported_source_type and leaves code/<path> as it was.
C24_GitWorkingCopyIsRejected ==
  [][RegisteredUri(UriGitDir)' =>
       (res'.status = <<"unsupported_source_type">> /\ home'.code = home.code)]_vars

\* C25: register_source with a file:// URI whose path does not exist returns
\* resource_not_found.
C25_MissingPathIsResourceNotFound ==
  [][RegisteredUri(UriMissing)' => res'.status = <<"resource_not_found">>]_vars

\* C26: register_source with a file:// URI naming a valid jar returns registered_only
\* with indexed false; the staged <artifact>-<version>-sources.jar then holds the
\* bytes of the original, whatever was staged before, and code/ and git-bare/ are
\* as they were.
C26_LocalJarIsStagedAndNothingExtracted ==
  [][RegisteredUri(UriLocalJar)' =>
       /\ res'.status = <<"registered_only">>
       /\ res'.indexed = FALSE
       /\ JarDir' = [exists |-> TRUE, jar |-> LocalEntry("/src/lib", ".jar").jar]
       /\ home'.code = home.code
       /\ home'.bare = home.bare]_vars

\* the local jar has just been staged, and the code directory is still absent
C26_Witness ==
  /\ RegisteredUri(UriLocalJar)
  /\ res.status = <<"registered_only">>
  /\ JarDir.jar = "J1"
  /\ ~CodeDir.exists

C28_ToolsShareOneStorageRoot ==
  [][(/\ res.op = "register" /\ res.call.c = GoodCoord
      /\ res.status = <<"registered_only">>
      /\ res'.op = "index" /\ res'.call.c = GoodCoord)
       => res'.status # <<"not_registered">>]_vars

\* the path <root>/<subtree>/<str>, as pathlib reads that string
UnderSubtree(subtree, str) == [root |-> subtree, segs |-> NormParts(SplitSlash(str, <<>>))]

\* C29: get_code_path and get_source_jar_path return
\* <root>/<subtree>/<group with '.' replaced by '/'>/<artifact>/<version> and
\* get_git_bare_path returns <root>/git-bare/<group-path>/<artifact>, so the versions
\* of one artifact share the bare path; the code path of (a.a, a, a) is exactly
\* <root>/code/a/a/a/a.
C29_PathsFollowTheLayout ==
  cpaths.built =>
    LET gp == ReplaceDots(coord[1])
        full == gp \o <<"/">> \o coord[2] \o <<"/">> \o coord[3]
    IN /\ cpaths.mine.code = UnderSubtree("code", full)
       /\ cpaths.mine.jar = UnderSubtree("source-jar", full)
       /\ cpaths.mine.bare = UnderSubtree("git-bare", gp \o <<"/">> \o coord[2])
       /\ (coord[1] = other[1] /\ coord[2] = other[2])
            => cpaths.mine.bare = cpaths.theirs.bare
       /\ other = <<<<"a", ".", "a">>, <<"a">>, <<"a">>>>
            => cpaths.theirs.code = [root |-> "code", segs |-> <<<<"a">>, <<"a">>, <<"a">>, <<"a">>>>]

\* git@<host>:<path> with a single '@', a non-empty host and a non-empty path
IsSshForm(s) ==
  LET tail == SubSeq(s, 5, Len(s))
      c == IndexOf(tail, {":"})
  IN /\ StartsWith(s, <<"g", "i", "t", "@">>)
     /\ \A i \in 1..Len(tail) : tail[i] # "@"
     /\ c > 1
     /\ c < Len(tail)

\* C30: a string starting with git@ is classified as SSH git exactly when it has the
\* form git@<host>:<path> (single '@', non-empty host, non-empty path), and then the
\* reconstructed url is the input; an http/https URI is a git repository when its URL
\* path ends in .git, a remote jar when its URL path ends in .jar, and is rejected
\* otherwise; a string with no git@ prefix and no file, http or https scheme is
\* rejected.
C30_ClassificationFollowsTheDecisionOrder ==
  res.op = "parse_uri" =>
    LET parsed == urlparse(source_uri)
    IN IF StartsWith(source_uri, <<"g", "i", "t", "@">>)
         THEN /\ res.ok <=> IsSshForm(source_uri)
              /\ res.ok => (res.uri_type = "git" /\ res.url = source_uri)
       ELSE IF parsed.scheme \in {<<"h", "t", "t", "p", "s">>, <<"h", "t", "t", "p">>}
         THEN IF EndsWith(parsed.path, DotGit) THEN res.ok /\ res.uri_type = "git"
              ELSE IF EndsWith(parsed.path, DotJar)
                THEN res.ok /\ res.uri_type = "http" /\ res.type = "jar"
              ELSE ~res.ok
       ELSE parsed.scheme # <<"f", "i", "l", "e">> => ~res.ok

\* the path lies strictly inside <root>/<subtree>
StrictlyInside(path, subtree) ==
  /\ path.root = subtree
  /\ path.segs # <<>>
  /\ \A i \in 1..Len(path.segs) : path.segs[i] # <<".", ".">>

\* C34: for every triple that passes validate_maven_coordinates the code path, the
\* source-jar path and the bare-repository path lie strictly inside <root>/code,
\* <root>/source-jar and <root>/git-bare: none is absolute, equal to the subtree
\* root, or outside the storage root.
C34_AcceptedCoordinatesStayInsideTheRoot ==
  cpaths.built =>
    /\ StrictlyInside(cpaths.mine.code, "code")
    /\ StrictlyInside(cpaths.mine.jar, "source-jar")
    /\ StrictlyInside(cpaths.mine.bare, "git-bare")

\* the statuses with which index_artifact reports a failure
IndexErrors == {<<"internal_error">>, <<"not_registered">>, <<"extraction_failed">>}

\* C35: when a jar is staged for a coordinate whose code directory holds the
\* extraction of another jar, an index_artifact call that returns a non-error status
\* leaves the code directory equal to the extraction of the jar now staged (stated
\* for the unset environment variable, where all tools read one root).
C35_IndexingFollowsTheStagedJar ==
  [][(/\ res'.op = "index" /\ res'.call.c = GoodCoord
      /\ res'.status \notin IndexErrors
      /\ envHome = "default"
      /\ IsValidZip(JarDir.jar)
      /\ CodeDir.exists /\ CodeDir.wt = "none"
      /\ \E j \in {"J1", "J2"} : j # JarDir.jar /\ CodeDir.tree = JarTree(j))
       => CodeDir'.tree = JarTree(JarDir'.jar)]_vars

\* C36: after index_artifact has returned extraction_failed the code directory of the
\* coordinate is absent or empty, so that the availability check of a later call
\* fails and the extraction is attempted again.
C36_FailedExtractionLeavesNoTree ==
  [][(res'.op = "index" /\ res'.call.c = GoodCoord /\ res'.status = <<"extraction_failed">>)
       => /\ ~CodeDir'.exists \/ TopItems(CodeDir'.tree) = {}
          /\ ~is_artifact_code_available(home', GoodCoord[1], GoodCoord[2], GoodCoord[3])]_vars

\* C37: whenever get_artifact_status gives a coordinate a non-empty status,
\* index_artifact called for that coordinate on the same storage does not answer
\* not_registered.
C37_ListedArtifactsAreRegistered ==
  [][(/\ res'.op = "index" /\ res'.call.c = GoodCoord
      /\ get_artifact_status(home, GoodCoord[1], GoodCoord[2], GoodCoord[3]) # <<>>)
       => res'.status # <<"not_registered">>]_vars

\* C39: when two concurrent register_source calls for the same coordinate and the
\* same local directory have both returned and one of them returned registered_only,
\* the code directory of the coordinate exists and holds a complete copy of the
\* source; and the failure cleanup of one call never removes a directory that the
\* other call has written into.
C39_ConcurrentDirectoryCopiesLeaveACompleteTree ==
  /\ [](((\A p \in Procs : procs[p].job = "copy_dir" /\ procs[p].pc = "done")
          /\ (\E p \in Procs : ExcStatus(procs[p].exc) = "registered_only"))
         => /\ home.code[GoodCode].exists
            /\ home.code[GoodCode].tree = SourceTree(procs[1].src))
  /\ [][\A p \in Procs :
          (/\ procs[p].pc = "sct_cleanup" /\ procs'[p].pc = "done"
           /\ \E q \in Procs \ {p} : procs[q].pc \in {"sct_copying", "done"}
                                       /\ procs[q].exc = "none"
                                       /\ procs[q].todo # TopItems(SourceTree(procs[q].src)))
            => home'.code[GoodCode] = home.code[GoodCode]]_vars

\* the directory of a scanned entry below code/
EntryCodeDir(e) == DirOf(get_code_path(e.group_id, e.artifact_id, e.version), "code")

\* C31: the list scan_all_artifacts returns holds no two entries with the same
\* (group, artifact, version), whatever the three roots hold.
C31_ScanReturnsEachCoordinateOnce ==
  res.op = "scan" =>
    \A i, j \in 1..Len(res.artifacts) :
      (/\ res.artifacts[i].group_id = res.artifacts[j].group_id
       /\ res.artifacts[i].artifact_id = res.artifacts[j].artifact_id
       /\ res.artifacts[i].version = res.artifacts[j].version) => i = j

\* a coordinate found in all three roots is listed
C31_Witness ==
  /\ res.op = "scan"
  /\ KeyOfVersionDir(Dir1) \in JarScanKeys(home) \cap GitScanKeys(home) \cap CodeScanKeys(home)
  /\ \E i \in 1..Len(res.artifacts) :
       /\ res.artifacts[i].group_id = <<"g">>
       /\ res.artifacts[i].artifact_id = <<"a">>
       /\ res.artifacts[i].version = <<"1">>

\* C38: every entry scan_all_artifacts returns has a non-empty status, its own
\* source-jar directory holding a jar or its own code directory existing; and no
\* entry stands for a directory inside the code directory of another entry.
C38_ScannedEntriesAreArtifactDirectories ==
  res.op = "scan" =>
    \A i \in 1..Len(res.artifacts) :
      LET e == res.artifacts[i]
      IN /\ e.status # <<>>
         /\ \/ KeyOfVersionDir(DirOf(get_source_jar_path(e.group_id, e.artifact_id,
                                                          e.version), "source-jar"))
                 \in JarScanKeys(home)
            \/ EntryCodeDir(e) \in home.code.dirs
         /\ \A j \in 1..Len(res.artifacts) :
              LET o == EntryCodeDir(res.artifacts[j])
              IN ~(/\ Len(o) < Len(EntryCodeDir(e))
                   /\ SubSeq(EntryCodeDir(e), 1, Len(o)) = o)

\* what a clause asks of a version: the comparison of the two as versions, and the
\* equality of the two strings when one of them is not a version
ClauseHolds(v, c) ==
  IF IsRelease(v) /\ IsRelease(c.version)
    THEN Satisfies(v, IF c.op \in {<<>>, <<"=">>, <<"=", "=">>} THEN "=="
                      ELSE IF c.op = <<">">> THEN ">"
                      ELSE IF c.op = <<">", "=">> THEN ">="
                      ELSE IF c.op = <<"<">> THEN "<" ELSE "<=", c.version)
  ELSE v = c.version

\* the versions the storage holds
RegisteredVersions ==
  LET all == scan_all_artifacts(home) IN {all[i].version : i \in 1..Len(all)}

\* C32: list_artifacts with a version filter returns exactly the registered versions
\* that satisfy every comma-separated clause, a clause being a comparison of versions
\* that falls back to the equality of the strings when a version does not parse.
C32_VersionFilterIsTheConjunctionOfItsClauses ==
  (res.op = "list" /\ res.call.clauses # <<>>) =>
    {res.artifacts[i].version : i \in 1..Len(res.artifacts)}
      = {v \in RegisteredVersions :
           \A n \in 1..Len(res.call.clauses) : ClauseHolds(v, res.call.clauses[n])}

\* the artifacts list_artifacts returns for the call without its page arguments
WholeList(k) == list_artifacts(home, [k EXCEPT !.page = 0, !.page_size = 0]).artifacts

\* C33: the artifacts list_artifacts returns are in ascending order of (group,
\* artifact, version); a call for page p of size page_size >= 1 reports the length
\* of the whole sorted filtered list as total_count, its quotient by page_size
\* rounded up as total_pages, and for p in 1..total_pages returns the elements at
\* positions (p-1)*page_size+1 .. min(p*page_size, total_count) of that list, which
\* holds every artifact passing the filters once.
C33_PagesPartitionTheSortedList ==
  res.op = "list" =>
    LET full == WholeList(res.call)
        all == scan_all_artifacts(home)
        ps == res.call.page_size
        pg == res.call.page
        count == res.pagination.total_count
    IN /\ \A i, j \in 1..Len(res.artifacts) : i < j => KeyLess(res.artifacts[i], res.artifacts[j])
       /\ \A i, j \in 1..Len(full) : i < j => KeyLess(full[i], full[j])
       /\ {full[i] : i \in 1..Len(full)}
            = {e \in {all[i] : i \in 1..Len(all)} : PassesFilters(e, res.call)}
       /\ (pg >= 1 /\ ps >= 1) =>
            /\ count = Len(full)
            /\ res.pagination.total_pages * ps >= count
            /\ (res.pagination.total_pages - 1) * ps < count
            /\ pg <= res.pagination.total_pages =>
                 res.artifacts
                   = SubSeq(full, (pg - 1) * ps + 1, IF pg * ps < count THEN pg * ps ELSE count)

\* the second page of a list that the scan did not return in sorted order
C33_Witness ==
  /\ res.op = "list" /\ res.call.page = 2 /\ res.call.page_size = 2
  /\ res.pagination.total_count >= 3
  /\ Len(res.artifacts) >= 1
  /\ scan_all_artifacts(home) # SortArtifacts(scan_all_artifacts(home))

\* C11: file-searchable is reported exactly when the code directory exists and holds
\* a file whose name does not start with a dot, directly or directly inside one of
\* its immediate subdirectories.
C11_FileSearchableIffNonDotFile ==
  LET labels == {Status[i] : i \in 1..Len(Status)}
  IN "file-searchable" \in labels
       <=> (CodeDir.exists /\ \E f \in CodeDir.tree.files : f[Len(f)] \notin DotNames)

====
